---- MODULE Spec2Model ----
(***************************************************************************)
(* Model of the authentication subsystem of the prompt optimizer:          *)
(* lib/auth.ts (user store, lockout tracker, credential verifier, session  *)
(* codec), lib/auth-edge.ts (restricted session codec), middleware.ts      *)
(* (request gate), lib/rate-limit.ts (sliding-window limiter) and the      *)
(* login and optimize API routes.                                          *)
(*                                                                         *)
(* Time is Date.now() in milliseconds.  The program constants keep their   *)
(* source values; the clock of each specification only visits a grid of    *)
(* instants (multiples of a period, plus a jitter of a few milliseconds)   *)
(* so that every comparison of the code is exercised on both sides of and  *)
(* exactly at its boundary.                                                *)
(*                                                                         *)
(* JavaScript strings are sequences of one-character strings.  A value of  *)
(* a JSON document or of a request body is a tagged record:                *)
(* [t |-> "string", s |-> _], [t |-> "number", n |-> _],                   *)
(* [t |-> "boolean", b |-> _], [t |-> "null"] or [t |-> "undefined"]; user *)
(* records and sessions are records of the model.                          *)
(***************************************************************************)
EXTENDS Integers, Sequences, FiniteSets, TLC

VARIABLES
    now,            \* Date.now()
    usersFile,      \* content of users.json
    loginAttempts,  \* lib/auth.ts: Map username -> {count, lastAttempt, lockedUntil?}
    calls,          \* in-flight verifyCredentials / login POST calls, by slot
    ev,             \* observation: the operation that returned in the last step, with its result
    failStreak,     \* observation: consecutive null results for the watched username
    recFails,       \* observation: failures recorded per key since the key was clean
    responses,      \* observation: the responses of the login route to failed authentications
    issued,         \* observation: the cookie values the callers of createSession hold, with the time of the call
    requests,       \* lib/rate-limit.ts: Map ip -> timestamps, in insertion order
    rateObs         \* observation: the isRateLimited calls made for the watched key

vars == <<now, usersFile, loginAttempts, calls, ev, failStreak, recFails, responses, issued,
          requests, rateObs>>

----------------------------------------------------------------------------
(* Bounds of the model *)

MaxGrid == 4        \* the clock visits periods 0..MaxGrid of the grid
MaxJitter == 1      \* and 0..MaxJitter milliseconds after each
MaxSlots == 2       \* calls that can be in flight at once
MaxSkew == 1        \* milliseconds Date.now() can advance between two reads of one call
MaxSessions == 1    \* cookie values the session callers obtain from createSession
MaxMisses == 3      \* times in a row Math.random() < 0.1 is false while the map is over its ceiling

----------------------------------------------------------------------------
(* JavaScript values and strings *)

Str(s) == [t |-> "string", s |-> s]
Undefined == [t |-> "undefined"]
Num(n) == [t |-> "number", n |-> n]

IsString(v) == v.t = "string"

Bool(b) == [t |-> "boolean", b |-> b]
Null == [t |-> "null"]

IsNumber(v) == v.t = "number"

\* JavaScript truthiness: undefined, null, false, "" and 0 are falsy; a number
\* that is no integer carries its floor as n and the mark frac
Truthy(v) ==
    CASE v.t = "undefined" -> FALSE
      [] v.t = "null" -> FALSE
      [] v.t = "boolean" -> v.b
      [] v.t = "string" -> Len(v.s) > 0
      [] v.t = "number" -> v.n # 0 \/ "frac" \in DOMAIN v
      [] OTHER -> TRUE

\* the white space String.prototype.trim strips, on the alphabet of the model
IsSpace(c) == c \in {" ", "\t", "\n", "\r", "\f"}

\* String.prototype.toLowerCase on the alphabet of the model
LowerChar(c) ==
    CASE c = "A" -> "a"
      [] c = "B" -> "b"
      [] c = "L" -> "l"
      [] c = "I" -> "i"
      [] OTHER -> c

toLowerCase(s) == [i \in 1..Len(s) |-> LowerChar(s[i])]

RECURSIVE trimStart(_)
trimStart(s) ==
    IF Len(s) > 0 /\ IsSpace(s[1]) THEN trimStart(Tail(s)) ELSE s

RECURSIVE trimEnd(_)
trimEnd(s) ==
    IF Len(s) > 0 /\ IsSpace(s[Len(s)]) THEN trimEnd(SubSeq(s, 1, Len(s) - 1)) ELSE s

\* String.prototype.trim
trim(s) == trimEnd(trimStart(s))

----------------------------------------------------------------------------
(* lib/auth.ts: configuration *)

\* RATE_LIMIT_CONFIG
maxAttempts == 5
lockoutDuration == 15 * 60 * 1000
attemptWindow == 5 * 60 * 1000

SESSION_DURATION_MS == 24 * 60 * 60 * 1000

\* number of leading bytes of the password that bcrypt feeds to its key schedule
BCRYPT_MAX_INPUT == 72

----------------------------------------------------------------------------
(* bcryptjs *)

\* the key material bcrypt derives the digest from: the first 72 bytes
bcryptKey(password) ==
    SubSeq(password, 1, IF Len(password) < BCRYPT_MAX_INPUT THEN Len(password) ELSE BCRYPT_MAX_INPUT)

\* bcrypt.hash(password, BCRYPT_SALT_ROUNDS); the salt is carried by the hash
\* and re-used by compare, so it does not influence the outcome of compare
hashPassword(password) == <<"$2a$12$", bcryptKey(password)>>

\* a comparison that ignores white space around the password
bcryptCompare_Trimmed(password, hash) == hashPassword(trim(password)) = hash

\* bcrypt.compare(password, hash)
bcryptCompare(password, hash) == hashPassword(password) = hash

----------------------------------------------------------------------------
(* Maps with a dynamic key set (JavaScript Map) *)

EmptyMap == [k \in {} |-> 0]
MapSet(m, k, v) == [x \in (DOMAIN m) \cup {k} |-> IF x = k THEN v ELSE m[x]]
MapDelete(m, k) == [x \in (DOMAIN m) \ {k} |-> m[x]]
MapHas(m, k) == k \in DOMAIN m

----------------------------------------------------------------------------
(* lib/auth.ts: user store *)

\* users.json with a parseable { users: [...] } content
UsersJson(users) == [kind |-> "json", users |-> users]

----------------------------------------------------------------------------
(* Inputs *)

uAli == <<"a", "l", "i">>
uALI == <<"A", "L", "I">>
uAliSp == <<"a", "l", "i", " ">>
uEve == <<"e", "v", "e">>

\* a password of n characters that ends in c
Password(n, c) == [i \in 1..n |-> IF i = n THEN c ELSE "p"]
\* the password p with its i-th character replaced by c
MutateAt(p, i, c) == [p EXCEPT ![i] = c]

pwAli == Password(73, "z")
pwBob == Password(8, "z")

uBob == <<"b", "o", "b">>

\* the users.json the specifications start from
InitialUsers ==
    UsersJson(<< [username |-> uAli, passwordHash |-> hashPassword(pwAli), displayName |-> Str(<<"A">>)],
                 [username |-> uBob, passwordHash |-> hashPassword(pwBob), displayName |-> Undefined] >>)

----------------------------------------------------------------------------
(* lib/auth.ts: loadUsers, findUser *)

\* loadUsers answering from the last good copy when the file cannot be used
loadUsers_LastGood(file) ==
    IF file.kind # "json"
    THEN SelectSeq(InitialUsers.users, LAMBDA u : Len(u.username) > 0 /\ Len(u.passwordHash) > 0)
    ELSE SelectSeq(file.users, LAMBDA u : Len(u.username) > 0 /\ Len(u.passwordHash) > 0)

\* loadUsers: a missing, empty, unparseable or ill-structured file is an empty
\* list; entries without username or passwordHash are dropped
loadUsers(file) ==
    IF file.kind # "json" THEN <<>>
    ELSE SelectSeq(file.users, LAMBDA u : Len(u.username) > 0 /\ Len(u.passwordHash) > 0)

RECURSIVE FirstMatch(_, _)
FirstMatch(users, normalizedUsername) ==
    IF Len(users) = 0 THEN Null
    ELSE IF trim(toLowerCase(users[1].username)) = normalizedUsername THEN users[1]
    ELSE FirstMatch(Tail(users), normalizedUsername)

\* findUser on a copy of users.json that was loaded once at startup
findUser_Cached(file, username) ==
    FirstMatch(loadUsers(InitialUsers), trim(toLowerCase(username)))

\* findUser: case-insensitive, trimmed, first match in a fresh loadUsers()
findUser(file, username) == FirstMatch(loadUsers(file), trim(toLowerCase(username)))

----------------------------------------------------------------------------
(* lib/auth.ts: lockout tracker.  Each operator returns the new map together
   with the function's return value. *)

HasLock(e) == "lockedUntil" \in DOMAIN e

\* isLockedOut counting the call it turns away as one more failed attempt
isLockedOut_Counting(la, username, t) ==
    LET k == toLowerCase(username) IN
    IF ~MapHas(la, k) THEN [ret |-> FALSE, la |-> la]
    ELSE IF HasLock(la[k]) /\ t < la[k].lockedUntil
    THEN [ret |-> TRUE, la |-> MapSet(la, k, [la[k] EXCEPT !.count = @ + 1, !.lastAttempt = t])]
    ELSE IF HasLock(la[k]) /\ t >= la[k].lockedUntil THEN [ret |-> FALSE, la |-> MapDelete(la, k)]
    ELSE [ret |-> FALSE, la |-> la]

\* isLockedOut(username) at time t
isLockedOut(la, username, t) ==
    LET k == toLowerCase(username) IN
    IF ~MapHas(la, k) THEN [ret |-> FALSE, la |-> la]
    ELSE IF HasLock(la[k]) /\ t < la[k].lockedUntil THEN [ret |-> TRUE, la |-> la]
    ELSE IF HasLock(la[k]) /\ t >= la[k].lockedUntil THEN [ret |-> FALSE, la |-> MapDelete(la, k)]
    ELSE [ret |-> FALSE, la |-> la]

\* the state of a username at its first failed attempt
FirstAttempt(t) == [count |-> 1, lastAttempt |-> t]

\* a new window that keeps the lockout field of the old one
NewWindow_KeepLock(e, t) ==
    IF HasLock(e) THEN [count |-> 1, lastAttempt |-> t, lockedUntil |-> e.lockedUntil]
    ELSE [count |-> 1, lastAttempt |-> t]

\* the state e after a failed attempt that opens a new window: the counter
\* restarts and `delete attempts.lockedUntil`
NewWindow(e, t) == [count |-> 1, lastAttempt |-> t]

\* the increment locking one failure too late
Increment_LateLock(e, t) ==
    LET c == e.count + 1 IN
    IF c > maxAttempts
    THEN [ret |-> [lockedOut |-> TRUE, remainingSeconds |-> lockoutDuration \div 1000],
          entry |-> [count |-> c, lastAttempt |-> t, lockedUntil |-> t + lockoutDuration]]
    ELSE [ret |-> [lockedOut |-> FALSE],
          entry |-> [count |-> c, lastAttempt |-> t]]

\* the increment not counting a failure that arrives once the lockout is set
Increment_Lost(e, t) ==
    LET c == IF HasLock(e) THEN e.count ELSE e.count + 1 IN
    IF c >= maxAttempts
    THEN [ret |-> [lockedOut |-> TRUE, remainingSeconds |-> lockoutDuration \div 1000],
          entry |-> [count |-> c, lastAttempt |-> t, lockedUntil |-> t + lockoutDuration]]
    ELSE [ret |-> [lockedOut |-> FALSE],
          entry |-> [count |-> c, lastAttempt |-> t]]

\* the state e after a failed attempt in the current window, and the value
\* recordFailedAttempt returns: `attempts.count++`, and the lockout once the
\* count has reached maxAttempts
Increment(e, t) ==
    LET c == e.count + 1 IN
    IF c >= maxAttempts
    THEN [ret |-> [lockedOut |-> TRUE, remainingSeconds |-> lockoutDuration \div 1000],
          entry |-> [count |-> c, lastAttempt |-> t, lockedUntil |-> t + lockoutDuration]]
    ELSE [ret |-> [lockedOut |-> FALSE],
          entry |-> IF HasLock(e)
                    THEN [count |-> c, lastAttempt |-> t, lockedUntil |-> e.lockedUntil]
                    ELSE [count |-> c, lastAttempt |-> t]]

\* recordFailedAttempt(username) at time t
recordFailedAttempt(la, username, t) ==
    LET k == toLowerCase(username) IN
    IF ~MapHas(la, k)
    THEN [ret |-> [lockedOut |-> FALSE], la |-> MapSet(la, k, FirstAttempt(t))]
    ELSE IF t - la[k].lastAttempt > attemptWindow
    THEN [ret |-> [lockedOut |-> FALSE], la |-> MapSet(la, k, NewWindow(la[k], t))]
    ELSE [ret |-> Increment(la[k], t).ret, la |-> MapSet(la, k, Increment(la[k], t).entry)]

\* clearFailedAttempts(username)
clearFailedAttempts(la, username) == MapDelete(la, toLowerCase(username))

----------------------------------------------------------------------------
(* lib/auth.ts: verifyCredentials.  The function runs synchronously up to
   `await bcrypt.compare(...)` and, when the comparison settles, from there
   to its return; other requests run in between. *)

\* verifyCredentials turning away an unknown username without recording it
verifyCredentialsEnter_Silent(la, file, username, password, t) ==
    IF ~Truthy(username) \/ ~IsString(username) \/ Len(trim(username.s)) = 0
    THEN [done |-> TRUE, result |-> Null, cause |-> "invalid", la |-> la]
    ELSE IF ~Truthy(password) \/ ~IsString(password) \/ Len(password.s) = 0
    THEN [done |-> TRUE, result |-> Null, cause |-> "invalid", la |-> la]
    ELSE LET lock == isLockedOut(la, username.s, t) IN
    IF lock.ret
    THEN [done |-> TRUE, result |-> Null, cause |-> "locked", la |-> lock.la]
    ELSE LET user == findUser(file, username.s) IN
    IF user = Null
    THEN [done |-> TRUE, result |-> Null, cause |-> "nouser", la |-> lock.la]
    ELSE [done |-> FALSE, user |-> user, la |-> lock.la]

\* verifyCredentials counting a call without a password as a failed attempt
verifyCredentialsEnter_CountsEmpty(la, file, username, password, t) ==
    IF ~Truthy(username) \/ ~IsString(username) \/ Len(trim(username.s)) = 0
    THEN [done |-> TRUE, result |-> Null, cause |-> "invalid", la |-> la]
    ELSE IF ~Truthy(password) \/ ~IsString(password) \/ Len(password.s) = 0
    THEN [done |-> TRUE, result |-> Null, cause |-> "invalid",
          la |-> recordFailedAttempt(la, username.s, t).la]
    ELSE LET lock == isLockedOut(la, username.s, t) IN
    IF lock.ret
    THEN [done |-> TRUE, result |-> Null, cause |-> "locked", la |-> lock.la]
    ELSE LET user == findUser(file, username.s) IN
    IF user = Null
    THEN [done |-> TRUE, result |-> Null, cause |-> "nouser",
          la |-> recordFailedAttempt(lock.la, username.s, t).la]
    ELSE [done |-> FALSE, user |-> user, la |-> lock.la]

\* verifyCredentials from its entry to the await or to an early return
verifyCredentialsEnter(la, file, username, password, t) ==
    IF ~Truthy(username) \/ ~IsString(username) \/ Len(trim(username.s)) = 0
    THEN [done |-> TRUE, result |-> Null, cause |-> "invalid", la |-> la]
    ELSE IF ~Truthy(password) \/ ~IsString(password) \/ Len(password.s) = 0
    THEN [done |-> TRUE, result |-> Null, cause |-> "invalid", la |-> la]
    ELSE LET lock == isLockedOut(la, username.s, t) IN
    IF lock.ret
    THEN [done |-> TRUE, result |-> Null, cause |-> "locked", la |-> lock.la]
    ELSE LET user == findUser(file, username.s) IN
    IF user = Null
    THEN [done |-> TRUE, result |-> Null, cause |-> "nouser",
          la |-> recordFailedAttempt(lock.la, username.s, t).la]
    ELSE [done |-> FALSE, user |-> user, la |-> lock.la]

\* verifyCredentials from the settled comparison to its return
verifyCredentialsResume(la, username, password, user, t) ==
    IF ~bcryptCompare(password.s, user.passwordHash)
    THEN [result |-> Null, cause |-> "wrongpw",
          la |-> recordFailedAttempt(la, username.s, t).la]
    ELSE [result |-> user, cause |-> "ok",
          la |-> clearFailedAttempts(la, username.s)]

----------------------------------------------------------------------------
(* The clock *)

\* the instants the clock visits: multiples of period, plus a jitter
Instants(period) == {k * period + j : k \in 0..MaxGrid, j \in 0..MaxJitter}

----------------------------------------------------------------------------
(* Observations.  They record what a caller or a test can see of the calls
   made so far; no operation of the program reads them. *)

Idle == [pc |-> "idle"]
NoEvent == [op |-> "none"]

WellFormed(username, password) ==
    /\ IsString(username) /\ Len(trim(username.s)) > 0
    /\ IsString(password) /\ Len(password.s) > 0

\* the username whose streak of null results is observed
Watched == Str(uAli)

NoStreak == [n |-> 0, at |-> 0]
NoCalls == [first |-> -1, inWindow |-> 0, after |-> "none"]
StreakOf(fs, username) == IF username = Watched THEN fs ELSE NoStreak

\* the streak of null results of the watched username after a call for
\* username returned result at t: the number of consecutive well-formed calls
\* that returned null, each at most attemptWindow after the one before, the
\* first of them made while the map held no state for the username (prior)
StreakAfter(fs, username, password, result, prior, t) ==
    IF username # Watched \/ ~WellFormed(username, password) THEN fs
    ELSE IF result # Null THEN NoStreak
    ELSE IF fs.n > 0 /\ t - fs.at <= attemptWindow
    THEN [n |-> IF fs.n > maxAttempts THEN fs.n ELSE fs.n + 1, at |-> t]
    ELSE IF prior = Null THEN [n |-> 1, at |-> t]
    ELSE NoStreak

\* the failures recorded for the key of username since the key had no state,
\* after a step that left the map la1 when it checked the lockout, recorded a
\* failure at t if recorded, and left the map la2
RecFailsAfter(rf, username, la1, recorded, la2, t) ==
    LET k == toLowerCase(username.s)
        rf1 == IF MapHas(la1, k) THEN rf ELSE MapDelete(rf, k)
        rf2 == IF ~recorded THEN rf1
               ELSE IF ~MapHas(rf1, k) THEN MapSet(rf1, k, [n |-> 1, one |-> TRUE, last |-> t])
               ELSE IF rf1[k].one /\ t - rf1[k].last <= attemptWindow
               THEN MapSet(rf1, k, [n |-> rf1[k].n + 1, one |-> TRUE, last |-> t])
               ELSE MapSet(rf1, k, [n |-> 0, one |-> FALSE, last |-> 0])
    IN IF MapHas(la2, k) THEN rf2 ELSE MapDelete(rf2, k)

PriorEntry(la, username) ==
    IF IsString(username) /\ MapHas(la, toLowerCase(username.s))
    THEN la[toLowerCase(username.s)] ELSE Null

\* what a verifyCredentials call returned, with the state of the username's
\* key before the returning step (prior) and after it (after)
VerifyEvent(username, password, result, cause, la2) ==
    [op |-> "verifyCredentials", username |-> username, password |-> password,
     result |-> result, cause |-> cause, at |-> now,
     prior |-> PriorEntry(loginAttempts, username),
     after |-> PriorEntry(la2, username),
     streak |-> StreakOf(failStreak, username)]

----------------------------------------------------------------------------
(* Actions of the credential verifier *)

Init ==
    /\ now = 0
    /\ usersFile = InitialUsers
    /\ loginAttempts = EmptyMap
    /\ calls = [r \in 1..MaxSlots |-> Idle]
    /\ ev = NoEvent
    /\ failStreak = NoStreak
    /\ recFails = EmptyMap
    /\ responses = {}
    /\ issued = {}
    /\ requests = <<>>
    /\ rateObs = NoCalls

\* Date.now() advances
Tick(period) ==
    /\ \E t \in Instants(period) : t > now /\ now' = t
    /\ ev' = NoEvent
    /\ UNCHANGED <<usersFile, loginAttempts, calls, failStreak, recFails, responses, issued,
                   requests, rateObs>>

\* a caller invokes verifyCredentials({username, password}); the call runs to
\* its first return or to the await on bcrypt.compare
VerifyCall(S, U, P) ==
    \E r \in S, username \in U, password \in P :
        /\ calls[r].pc = "idle"
        /\ LET res == verifyCredentialsEnter(loginAttempts, usersFile, username, password, now) IN
           /\ loginAttempts' = res.la
           /\ IF res.done
              THEN /\ calls' = calls
                   /\ ev' = VerifyEvent(username, password, res.result, res.cause, res.la)
                   /\ failStreak' = StreakAfter(failStreak, username, password, res.result,
                                               PriorEntry(loginAttempts, username), now)
                   /\ recFails' = IF res.cause = "invalid" THEN recFails
                                  ELSE RecFailsAfter(recFails, username,
                                           isLockedOut(loginAttempts, username.s, now).la,
                                           res.cause = "nouser", res.la, now)
              ELSE /\ calls' = [calls EXCEPT ![r] =
                                   [pc |-> "compare", via |-> "direct", username |-> username,
                                    password |-> password, user |-> res.user]]
                   /\ recFails' = RecFailsAfter(recFails, username, res.la, FALSE, res.la, now)
                   /\ UNCHANGED <<ev, failStreak>>
        /\ UNCHANGED <<now, usersFile, responses, issued, requests, rateObs>>

\* bcrypt.compare settles and verifyCredentials runs to its return
VerifyReturn(S) ==
    \E r \in S :
        /\ calls[r].pc = "compare"
        /\ calls[r].via = "direct"
        /\ LET c == calls[r]
               res == verifyCredentialsResume(loginAttempts, c.username, c.password, c.user, now) IN
           /\ loginAttempts' = res.la
           /\ ev' = VerifyEvent(c.username, c.password, res.result, res.cause, res.la)
           /\ failStreak' = StreakAfter(failStreak, c.username, c.password, res.result,
                                       PriorEntry(loginAttempts, c.username), now)
           /\ recFails' = RecFailsAfter(recFails, c.username, loginAttempts,
                                        res.cause = "wrongpw", res.la, now)
        /\ calls' = [calls EXCEPT ![r] = Idle]
        /\ UNCHANGED <<now, usersFile, responses, issued, requests, rateObs>>

----------------------------------------------------------------------------
(* Sequential callers: one verifyCredentials call at a time for one username,
   with the right and with a wrong password, while the clock advances *)

SeqSlots == {1}
SeqUsernames == {Str(uAli)}
SeqPasswords == {Str(pwAli), Str(MutateAt(pwAli, 1, "x"))}

NextSeq ==
    \/ VerifyCall(SeqSlots, SeqUsernames, SeqPasswords)
    \/ VerifyReturn(SeqSlots)
    \/ Tick(attemptWindow)

SpecSeq == Init /\ [][NextSeq]_vars

----------------------------------------------------------------------------
(* Concurrent callers: verifyCredentials calls for one username interleave
   at the await on the password comparison *)

ConcSlots == 1..MaxSlots
ConcUsernames == {Str(uAli)}
ConcPasswords == {Str(pwAli), Str(MutateAt(pwAli, 1, "x"))}

NextConc ==
    \/ VerifyCall(ConcSlots, ConcUsernames, ConcPasswords)
    \/ VerifyReturn(ConcSlots)
    \/ Tick(attemptWindow)

SpecConc == Init /\ [][NextConc]_vars

----------------------------------------------------------------------------
(* Callers trying passwords: sequential calls for the two stored usernames
   with the stored passwords and passwords one character apart from them *)

\* the password each record of InitialUsers was created with
StoredPassword(user) == IF user.username = uAli THEN pwAli ELSE pwBob

PwSlots == {1}
PwUsernames == {Str(uAli), Str(uBob)}
PwPasswords ==
    {Str(pwAli), Str(MutateAt(pwAli, 1, "x")), Str(MutateAt(pwAli, 72, "x")),
     Str(MutateAt(pwAli, 73, "x")), Str(pwBob), Str(MutateAt(pwBob, 8, "x"))}

NextPw ==
    \/ VerifyCall(PwSlots, PwUsernames, PwPasswords)
    \/ VerifyReturn(PwSlots)

SpecPw == Init /\ [][NextPw]_vars

----------------------------------------------------------------------------
(* Callers spelling one username differently: sequential calls under three
   spellings of the stored username *)

NameSlots == {1}
NameSpellings == {uAli, uALI, uAliSp}
NameUsernames == {Str(u) : u \in NameSpellings}
NamePasswords == {Str(pwAli), Str(MutateAt(pwAli, 1, "x"))}

NextNames ==
    \/ VerifyCall(NameSlots, NameUsernames, NamePasswords)
    \/ VerifyReturn(NameSlots)

SpecNames == Init /\ [][NextNames]_vars

----------------------------------------------------------------------------
(* lib/validation.ts *)

\* the control characters sanitizeInput removes, on the alphabet of the model
\* (form feed, \x0C)
IsControl(c) == c \in {"\f"}

RemoveControl(s) == SelectSeq(s, LAMBDA c : ~IsControl(c))

\* \r\n and then \r become \n
RECURSIVE NormalizeLineEndings(_)
NormalizeLineEndings(s) ==
    IF Len(s) = 0 THEN <<>>
    ELSE IF s[1] = "\r" /\ Len(s) >= 2 /\ s[2] = "\n"
    THEN <<"\n">> \o NormalizeLineEndings(SubSeq(s, 3, Len(s)))
    ELSE IF s[1] = "\r" THEN <<"\n">> \o NormalizeLineEndings(Tail(s))
    ELSE <<s[1]>> \o NormalizeLineEndings(Tail(s))

RECURSIVE SkipBlanks(_)
SkipBlanks(s) == IF Len(s) > 0 /\ s[1] \in {" ", "\t"} THEN SkipBlanks(Tail(s)) ELSE s

\* runs of spaces and tabs become one space
RECURSIVE CollapseBlanks(_)
CollapseBlanks(s) ==
    IF Len(s) = 0 THEN <<>>
    ELSE IF s[1] \in {" ", "\t"} THEN <<" ">> \o CollapseBlanks(SkipBlanks(s))
    ELSE <<s[1]>> \o CollapseBlanks(Tail(s))

\* runs of 4 or more newlines become 3; run is the length of the run before s
RECURSIVE LimitNewlines(_, _)
LimitNewlines(s, run) ==
    IF Len(s) = 0 THEN <<>>
    ELSE IF s[1] # "\n" THEN <<s[1]>> \o LimitNewlines(Tail(s), 0)
    ELSE IF run >= 3 THEN LimitNewlines(Tail(s), run + 1)
    ELSE <<"\n">> \o LimitNewlines(Tail(s), run + 1)

sanitizeInput(input) ==
    trim(LimitNewlines(CollapseBlanks(NormalizeLineEndings(RemoveControl(input))), 0))

\* a UTF-16 code unit that is half of a surrogate pair, on its own
LoneSurrogate == "<D800>"

\* TextEncoder.encode: a lone surrogate is encoded as U+FFFD
TextEncode(s) == [i \in 1..Len(s) |-> IF s[i] = LoneSurrogate THEN "<FFFD>" ELSE s[i]]

\* new TextDecoder('utf-8', {fatal: true}).decode(bytes) does not throw
TextDecodes(bytes) == \A i \in 1..Len(bytes) : bytes[i] # LoneSurrogate

isValidUtf8(input) == TextDecodes(TextEncode(input))

----------------------------------------------------------------------------
(* lib/auth.ts and lib/auth-edge.ts: session codec *)

\* a JSON document is a record of the model (an object), or a JavaScript value
IsObject(json) == "t" \notin DOMAIN json

\* the member f of a parsed JSON document; undefined when it has none
Member(json, f) ==
    IF IsObject(json) /\ f \in DOMAIN json THEN json[f] ELSE Undefined

\* Buffer.from(JSON.stringify(x)).toString('base64url')
Base64Json(json) == [base64url |-> "json", json |-> json]
\* a cookie value whose decoded bytes are not a JSON document
NotJson == [base64url |-> "text"]

\* the SessionData createSession builds for user when its first Date.now()
\* returns t1 and its second t2
SessionData(user, token, t1, t2) ==
    [username |-> Str(user.username), displayName |-> user.displayName,
     token |-> Str(token), createdAt |-> Num(t2),
     expiresAt |-> Num(t1 + SESSION_DURATION_MS)]

\* JSON.stringify of a SessionData: an undefined displayName is left out
StringifySession(session) ==
    IF session.displayName = Undefined
    THEN [username |-> session.username, token |-> session.token,
          createdAt |-> session.createdAt, expiresAt |-> session.expiresAt]
    ELSE session

\* the cookie value createSession sets
createSession(user, token, t1, t2) == Base64Json(StringifySession(SessionData(user, token, t1, t2)))

\* the checks both decodeSession variants make on a cookie value at time t;
\* JSON.parse throws on a value that is no JSON document, and reading a member
\* of null throws: both are caught and give null
decodeSessionCore(cookieValue, t) ==
    IF cookieValue.base64url # "json" THEN Null
    ELSE LET session == cookieValue.json IN
    IF session = Null THEN Null
    ELSE IF \/ ~Truthy(Member(session, "username"))
            \/ ~Truthy(Member(session, "token"))
            \/ ~Truthy(Member(session, "expiresAt")) THEN Null
    ELSE IF ~IsString(Member(session, "username")) \/ ~IsNumber(Member(session, "expiresAt"))
    THEN Null
    ELSE IF t > Member(session, "expiresAt").n THEN Null
    ELSE session

\* an edge decodeSession that does not look at the clock
decodeSessionEdge_Timeless(cookieValue, t) ==
    decodeSessionCore(cookieValue, 0)

\* lib/auth-edge.ts: decodeSession
decodeSessionEdge(cookieValue, t) == decodeSessionCore(cookieValue, t)

\* lib/auth.ts: decodeSession, which also requires the user to exist
decodeSession(cookieValue, file, t) ==
    LET session == decodeSessionCore(cookieValue, t) IN
    IF session = Null THEN Null
    ELSE IF findUser(file, session.username.s) = Null THEN Null
    ELSE session

\* getAuthenticatedUser of either variant: no cookie, or an empty one, is null
getAuthenticatedUser(cookie, file, t) ==
    IF cookie = Undefined THEN Null ELSE decodeSession(cookie, file, t)

getAuthenticatedUserEdge(cookie, t) ==
    IF cookie = Undefined THEN Null ELSE decodeSessionEdge(cookie, t)

\* crypto.randomBytes(32).toString('base64url')
Tokens == {<<"r", "1">>, <<"r", "2">>}

\* the instants the model lets a call read from Date.now(): within MaxJitter of
\* a whole second
OnGrid(t) == t % 1000 <= MaxJitter

----------------------------------------------------------------------------
(* app/api/auth/login/route.ts: POST *)

\* a request body that req.json() cannot parse
Unparseable == [t |-> "unparseable"]

Response(status, body) == [status |-> status, body |-> body, setCookie |-> Undefined]
ErrorResponse(status, message) == Response(status, [error |-> message])
InvalidCredentials == ErrorResponse(401, "Invalid credentials")

\* the handler from the parsed body to the verifyCredentials call: the response
\* of a request it rejects itself, or the credentials it passes on
LoginValidate(body) ==
    IF body = Unparseable THEN [done |-> TRUE, response |-> ErrorResponse(400, "Invalid request")]
    ELSE IF ~Truthy(body.username) \/ ~IsString(body.username) \/ Len(trim(body.username.s)) = 0
    THEN [done |-> TRUE, response |-> ErrorResponse(400, "Username is required")]
    ELSE IF ~Truthy(body.password) \/ ~IsString(body.password) \/ Len(body.password.s) = 0
    THEN [done |-> TRUE, response |-> ErrorResponse(400, "Password is required")]
    ELSE IF ~isValidUtf8(body.username.s) \/ ~isValidUtf8(body.password.s)
    THEN [done |-> TRUE, response |-> ErrorResponse(400, "Invalid character encoding")]
    ELSE LET username == sanitizeInput(body.username.s) IN
    IF Len(username) < 3 \/ Len(username) > 100
    THEN [done |-> TRUE, response |-> InvalidCredentials]
    ELSE IF Len(body.password.s) < 8 \/ Len(body.password.s) > 128
    THEN [done |-> TRUE, response |-> InvalidCredentials]
    ELSE [done |-> FALSE, username |-> Str(username), password |-> body.password]

\* a handler that tells a locked account from the other failures
AuthFailureResponse_Locked(cause) ==
    IF cause = "locked" THEN ErrorResponse(429, "Account locked") ELSE InvalidCredentials

\* the response to a request for which verifyCredentials returned null for
\* cause: the handler only sees the null
AuthFailureResponse(cause) == InvalidCredentials

\* the response to a request whose session was created with cookie value cookie
LoginSuccess(user, cookie) ==
    [status |-> 200,
     body |-> [success |-> TRUE, message |-> "Login successful",
               username |-> user.username, displayName |-> user.displayName],
     setCookie |-> cookie]

LoginEvent(body, response, cause) ==
    [op |-> "login", request |-> body, response |-> response, cause |-> cause, at |-> now]

\* the responses seen so far for authentications that failed for cause
Seen(rs, cause, response) ==
    IF cause \in {"nouser", "wrongpw", "locked"}
    THEN rs \cup {[cause |-> cause, response |-> response]} ELSE rs

\* a client posts body to /api/auth/login; the handler runs to its response or
\* to the await on bcrypt.compare inside verifyCredentials
LoginPost(S, Bodies) ==
    \E r \in S, body \in Bodies :
        /\ calls[r].pc = "idle"
        /\ LET v == LoginValidate(body) IN
           IF v.done
           THEN /\ ev' = LoginEvent(body, v.response, "rejected")
                /\ UNCHANGED <<loginAttempts, calls, recFails, responses>>
           ELSE LET res == verifyCredentialsEnter(loginAttempts, usersFile,
                                                  v.username, v.password, now) IN
                /\ loginAttempts' = res.la
                /\ IF res.done
                   THEN /\ calls' = calls
                        /\ ev' = LoginEvent(body, AuthFailureResponse(res.cause), res.cause)
                        /\ responses' = Seen(responses, res.cause, AuthFailureResponse(res.cause))
                        /\ recFails' = RecFailsAfter(recFails, v.username,
                                           isLockedOut(loginAttempts, v.username.s, now).la,
                                           res.cause = "nouser", res.la, now)
                   ELSE /\ calls' = [calls EXCEPT ![r] =
                                        [pc |-> "compare", via |-> "login", body |-> body,
                                         username |-> v.username, password |-> v.password,
                                         user |-> res.user]]
                        /\ recFails' = RecFailsAfter(recFails, v.username, res.la, FALSE, res.la, now)
                        /\ UNCHANGED <<ev, responses>>
        /\ UNCHANGED <<now, usersFile, failStreak, issued, requests, rateObs>>

\* bcrypt.compare settles; verifyCredentials returns and the handler answers:
\* 401, or createSession and 200, or 500 when createSession throws
LoginReturn(S) ==
    \E r \in S :
        /\ calls[r].pc = "compare"
        /\ calls[r].via = "login"
        /\ LET c == calls[r]
               res == verifyCredentialsResume(loginAttempts, c.username, c.password, c.user, now) IN
           /\ loginAttempts' = res.la
           /\ recFails' = RecFailsAfter(recFails, c.username, loginAttempts,
                                        res.cause = "wrongpw", res.la, now)
           /\ IF res.result = Null
              THEN /\ ev' = LoginEvent(c.body, AuthFailureResponse(res.cause), res.cause)
                   /\ responses' = Seen(responses, res.cause, AuthFailureResponse(res.cause))
                   /\ now' = now
              ELSE /\ responses' = responses
                   /\ \/ /\ ev' = LoginEvent(c.body, ErrorResponse(500, "Failed to create session"),
                                             "session")
                         /\ now' = now
                      \/ \E token \in Tokens, d \in 0..MaxSkew :
                            /\ OnGrid(now + d)
                            /\ now' = now + d
                            /\ LET cookie == createSession(res.result, token, now, now + d) IN
                               ev' = LoginEvent(c.body, LoginSuccess(res.result, cookie), "ok")
        /\ calls' = [calls EXCEPT ![r] = Idle]
        /\ UNCHANGED <<usersFile, failStreak, issued, requests, rateObs>>

----------------------------------------------------------------------------
(* Clients of the login route: requests for a stored, a misspelt, an unknown
   and a malformed username, with right, wrong and malformed passwords and a
   password that holds half a surrogate pair *)

LoginSlots == {1}
LoginBodies ==
    {Unparseable} \cup
    {[username |-> u, password |-> p] :
        u \in {Str(uAli), Str(uAliSp), Str(uEve), Str(<<"a", "l">>), Undefined},
        p \in {Str(pwAli), Str(MutateAt(pwAli, 1, "x")), Str(Password(7, "z")), Undefined,
               Str(MutateAt(pwAli, 1, LoneSurrogate))}}

NextLogin ==
    \/ LoginPost(LoginSlots, LoginBodies)
    \/ LoginReturn(LoginSlots)

SpecLogin == Init /\ [][NextLogin]_vars

----------------------------------------------------------------------------
(* middleware.ts: the request gate *)

\* the characters of a path, one per element
pLogin == <<"/", "l", "o", "g", "i", "n">>
pApiLogin == <<"/", "a", "p", "i", "/", "a", "u", "t", "h", "/", "l", "o", "g", "i", "n">>
pApiLogout == <<"/", "a", "p", "i", "/", "a", "u", "t", "h", "/", "l", "o", "g", "o", "u", "t">>
pApiHealth == <<"/", "a", "p", "i", "/", "h", "e", "a", "l", "t", "h">>
pNext == <<"/", "_", "n", "e", "x", "t">>
pFavicon == <<"/", "f", "a", "v", "i", "c", "o", "n", ".", "i", "c", "o">>
pPublic == <<"/", "p", "u", "b", "l", "i", "c">>
pRoot == <<"/">>
pApiOptimize == <<"/", "a", "p", "i", "/", "o", "p", "t", "i", "m", "i", "z", "e">>

publicPaths == {pLogin, pApiLogin, pApiLogout, pApiHealth, pNext, pFavicon, pPublic}

\* String.prototype.startsWith
startsWith(s, prefix) == Len(s) >= Len(prefix) /\ SubSeq(s, 1, Len(prefix)) = prefix

\* a gate that forwards every request that carries a cookie
middleware_AnyCookie(pathname, cookie, t) ==
    IF \E path \in publicPaths : startsWith(pathname, path) THEN [action |-> "next"]
    ELSE IF cookie = Undefined
    THEN [action |-> "redirect", location |-> pLogin, returnTo |-> pathname]
    ELSE [action |-> "next"]

\* middleware(request) at time t: NextResponse.next(), or the redirect to
\* /login?returnTo=pathname
middleware(pathname, cookie, t) ==
    IF \E path \in publicPaths : startsWith(pathname, path) THEN [action |-> "next"]
    ELSE IF getAuthenticatedUserEdge(cookie, t) = Null
    THEN [action |-> "redirect", location |-> pLogin, returnTo |-> pathname]
    ELSE [action |-> "next"]

----------------------------------------------------------------------------
(* scripts/manage-users.ts: removeUser *)

RECURSIVE IndexOfUser(_, _, _)
IndexOfUser(users, normalizedUsername, i) ==
    IF i > Len(users) THEN 0
    ELSE IF toLowerCase(users[i].username) = normalizedUsername THEN i
    ELSE IndexOfUser(users, normalizedUsername, i + 1)

\* users.json after the operator removed username and confirmed
removeUser(file, username) ==
    LET users == IF file.kind = "json" THEN file.users ELSE <<>>
        i == IndexOfUser(users, toLowerCase(trim(username)), 1) IN
    IF Len(users) = 0 \/ Len(trim(username)) = 0 \/ i = 0 THEN file
    ELSE UsersJson(SubSeq(users, 1, i - 1) \o SubSeq(users, i + 1, Len(users)))

----------------------------------------------------------------------------
(* Actions of the session codec, the gate and the user store *)

\* cookie values a client can make up: a session for a stored and for an
\* unknown username, neither produced by createSession, and a value that is
\* no JSON document
FarFuture == 10 * SESSION_DURATION_MS
Forged(username) ==
    Base64Json([username |-> Str(username), token |-> Str(<<"x">>), expiresAt |-> Num(FarFuture)])
ClientCookies == {Forged(uAli), Forged(uEve), NotJson}

\* the cookie values createSession has produced
IssuedCookies == {i.cookie : i \in issued}

\* the cookie values a request can carry
Presented == IssuedCookies \cup ClientCookies

\* a caller that authenticated user calls createSession(user)
CreateSession ==
    \E i \in 1..Len(loadUsers(usersFile)), token \in Tokens, d \in 0..MaxSkew :
        /\ Cardinality(issued) < MaxSessions
        /\ OnGrid(now + d)
        /\ LET cookie == createSession(loadUsers(usersFile)[i], token, now, now + d) IN
           /\ issued' = issued \cup {[cookie |-> cookie, at |-> now]}
           /\ ev' = [op |-> "createSession", cookie |-> cookie, at |-> now]
        /\ now' = now + d
        /\ UNCHANGED <<usersFile, loginAttempts, calls, failStreak, recFails, responses, requests, rateObs>>

DecodeEvent(variant, cookie, result) ==
    [op |-> "decodeSession", variant |-> variant, cookie |-> cookie, result |-> result,
     at |-> now,
     userExists |-> /\ decodeSessionCore(cookie, now) # Null
                    /\ findUser(usersFile, decodeSessionCore(cookie, now).username.s) # Null]

\* lib/auth.ts: decodeSession(cookieValue), as isAuthenticated and
\* getAuthenticatedUser call it
DecodeSession ==
    \E cookie \in Presented :
        /\ ev' = DecodeEvent("full", cookie, decodeSession(cookie, usersFile, now))
        /\ UNCHANGED <<now, usersFile, loginAttempts, calls, failStreak, recFails, responses, issued, requests, rateObs>>

\* lib/auth-edge.ts: decodeSession(cookieValue)
DecodeSessionEdge ==
    \E cookie \in Presented :
        /\ ev' = DecodeEvent("edge", cookie, decodeSessionEdge(cookie, now))
        /\ UNCHANGED <<now, usersFile, loginAttempts, calls, failStreak, recFails, responses, issued, requests, rateObs>>

\* a request for pathname passes through the middleware
Middleware(Paths) ==
    \E pathname \in Paths, cookie \in Presented \cup {Undefined} :
        /\ ev' = [op |-> "middleware", pathname |-> pathname, cookie |-> cookie,
                  result |-> middleware(pathname, cookie, now), at |-> now]
        /\ UNCHANGED <<now, usersFile, loginAttempts, calls, failStreak, recFails, responses, issued, requests, rateObs>>

\* the operator removes a user with the management script
RemoveUser(U) ==
    \E username \in U :
        /\ removeUser(usersFile, username) # usersFile
        /\ usersFile' = removeUser(usersFile, username)
        /\ ev' = [op |-> "removeUser", username |-> username, at |-> now]
        /\ UNCHANGED <<now, loginAttempts, calls, failStreak, recFails, responses, issued, requests, rateObs>>

----------------------------------------------------------------------------
(* Holders of session cookies: sessions are created, presented to both codec
   variants and to the gate together with made-up values, users are removed,
   and the clock runs past the session duration *)

SessionPaths == {pRoot, pLogin}

NextSession ==
    \/ CreateSession
    \/ DecodeSession
    \/ DecodeSessionEdge
    \/ Middleware(SessionPaths)
    \/ RemoveUser({uAli})
    \/ Tick(SESSION_DURATION_MS)

SpecSession == Init /\ [][NextSession]_vars

----------------------------------------------------------------------------
(* lib/rate-limit.ts *)

WINDOW_MS == 60000
MAX_REQUESTS == 10
MAX_IPS_IN_MEMORY == 10000
CLEANUP_BATCH_SIZE == 1000

\* the filter taking WINDOW_MS for a number of seconds
Recent_Seconds(timestamps, t) == SelectSeq(timestamps, LAMBDA x : t - x < WINDOW_MS \div 1000)

\* timestamps.filter(t => now - t < WINDOW_MS)
Recent(timestamps, t) == SelectSeq(timestamps, LAMBDA x : t - x < WINDOW_MS)

\* requests.get(ip) || []
RateGet(reqs, ip) ==
    LET hits == SelectSeq(reqs, LAMBDA e : e.ip = ip) IN
    IF hits = <<>> THEN <<>> ELSE hits[1].timestamps

\* requests.set(ip, timestamps): an existing key keeps its place in the
\* iteration order, a new key goes last
RateSet(reqs, ip, timestamps) ==
    IF \E i \in 1..Len(reqs) : reqs[i].ip = ip
    THEN [i \in 1..Len(reqs) |->
            IF reqs[i].ip = ip THEN [ip |-> ip, timestamps |-> timestamps] ELSE reqs[i]]
    ELSE Append(reqs, [ip |-> ip, timestamps |-> timestamps])

\* the number of keys an entry of the model stands for: one, or the n keys of
\* a run of consecutive keys that hold the same timestamps
KeysOf(e) == IF "n" \in DOMAIN e THEN e.n ELSE 1

\* requests.size
RECURSIVE MapSize(_)
MapSize(reqs) == IF reqs = <<>> THEN 0 ELSE KeysOf(Head(reqs)) + MapSize(Tail(reqs))

\* the loop of cleanupOldEntries over the entries not yet visited, with room
\* for CLEANUP_BATCH_SIZE - cleaned more deletions
RECURSIVE CleanupLoop(_, _, _)
CleanupLoop(rest, cleaned, t) ==
    IF rest = <<>> THEN <<>>
    ELSE LET recent == Recent(Head(rest).timestamps, t)
             room == CLEANUP_BATCH_SIZE - cleaned IN
         IF Len(recent) = 0
         THEN IF KeysOf(Head(rest)) > room
              THEN <<[Head(rest) EXCEPT !.n = @ - room]>> \o Tail(rest)
              ELSE IF KeysOf(Head(rest)) = room THEN Tail(rest)
              ELSE CleanupLoop(Tail(rest), cleaned + KeysOf(Head(rest)), t)
         ELSE <<[Head(rest) EXCEPT !.timestamps = recent]>>
                  \o CleanupLoop(Tail(rest), cleaned, t)

\* the number of keys the loop of cleanupOldEntries processes (filters, then
\* deletes or stores) among the entries not yet visited
RECURSIVE CleanupVisits(_, _, _)
CleanupVisits(rest, cleaned, t) ==
    IF rest = <<>> THEN 0
    ELSE IF Len(Recent(Head(rest).timestamps, t)) = 0
         THEN IF KeysOf(Head(rest)) >= CLEANUP_BATCH_SIZE - cleaned
              THEN CLEANUP_BATCH_SIZE - cleaned
              ELSE KeysOf(Head(rest))
                       + CleanupVisits(Tail(rest), cleaned + KeysOf(Head(rest)), t)
         ELSE KeysOf(Head(rest)) + CleanupVisits(Tail(rest), cleaned, t)

\* a cleanup that starts one batch above the ceiling
cleanupOldEntries_Lazy(reqs, t) ==
    IF MapSize(reqs) > MAX_IPS_IN_MEMORY + CLEANUP_BATCH_SIZE THEN CleanupLoop(reqs, 0, t)
    ELSE reqs

cleanupOldEntries(reqs, t) ==
    IF MapSize(reqs) > MAX_IPS_IN_MEMORY THEN CleanupLoop(reqs, 0, t) ELSE reqs

OverLimit_Late(recentTimestamps) == Len(recentTimestamps) > MAX_REQUESTS

\* recentTimestamps.length >= MAX_REQUESTS
OverLimit(recentTimestamps) == Len(recentTimestamps) >= MAX_REQUESTS

\* isRateLimited recording the request it refuses
isRateLimited_CountsRefused(reqs, ip, t, cleanup) ==
    LET recentTimestamps == Recent(RateGet(reqs, ip), t) IN
    IF OverLimit(recentTimestamps)
    THEN [ret |-> TRUE, requests |-> RateSet(reqs, ip, Append(recentTimestamps, t))]
    ELSE LET recorded == RateSet(reqs, ip, Append(recentTimestamps, t)) IN
         [ret |-> FALSE,
          requests |-> IF cleanup THEN cleanupOldEntries(recorded, t) ELSE recorded]

\* isRateLimited(ip) at time t; cleanup tells whether Math.random() < 0.1.
\* The return value and the map it leaves.
isRateLimited(reqs, ip, t, cleanup) ==
    LET recentTimestamps == Recent(RateGet(reqs, ip), t) IN
    IF OverLimit(recentTimestamps) THEN [ret |-> TRUE, requests |-> reqs]
    ELSE LET recorded == RateSet(reqs, ip, Append(recentTimestamps, t)) IN
         [ret |-> FALSE,
          requests |-> IF cleanup THEN cleanupOldEntries(recorded, t) ELSE recorded]

\* Math.max(0, MAX_REQUESTS - recentTimestamps.length)
getRemainingRequests(reqs, ip, t) ==
    LET n == MAX_REQUESTS - Len(Recent(RateGet(reqs, ip), t)) IN
    IF n > 0 THEN n ELSE 0

----------------------------------------------------------------------------
(* Observation of the rate limiter: the calls made for one key, counted from
   the first one; inWindow counts the calls made less than WINDOW_MS after the
   first and stops counting at ObsCap; after tells whether no call, one call
   or more calls were made later. *)

ip1 == <<"7">>
WatchedIp == ip1
ObsCap == MAX_REQUESTS + 2
Capped(n) == IF n < ObsCap THEN n + 1 ELSE ObsCap

RateObsAfter(ro, ip, t) ==
    IF ip # WatchedIp THEN ro
    ELSE IF ro.first < 0 THEN [first |-> t, inWindow |-> 1, after |-> "none"]
    ELSE IF t < ro.first + WINDOW_MS THEN [ro EXCEPT !.inWindow = Capped(@)]
    ELSE [ro EXCEPT !.after = IF @ = "none" THEN "first" ELSE "more"]

\* isRateLimited(ip) runs; cleanup tells whether Math.random() < 0.1
IsRateLimitedCall(ip, cleanup) ==
    LET res == isRateLimited(requests, ip, now, cleanup)
        ro == RateObsAfter(rateObs, ip, now) IN
    /\ requests' = res.requests
    /\ rateObs' = ro
    /\ ev' = [op |-> "isRateLimited", ip |-> ip, result |-> res.ret, at |-> now,
              first |-> ro.first, nth |-> ro.inWindow, after |-> ro.after]
    /\ UNCHANGED <<now, usersFile, loginAttempts, failStreak, recFails, responses, issued>>

\* a caller asks isRateLimited(ip)
IsRateLimited(Ips) ==
    \E ip \in Ips, cleanup \in BOOLEAN :
        /\ IsRateLimitedCall(ip, cleanup)
        /\ UNCHANGED calls

\* a caller asks getRemainingRequests(ip)
GetRemainingRequests(Ips) ==
    \E ip \in Ips :
        /\ ev' = [op |-> "getRemainingRequests", ip |-> ip,
                  result |-> getRemainingRequests(requests, ip, now), at |-> now]
        /\ UNCHANGED <<now, usersFile, loginAttempts, calls, failStreak, recFails, responses,
                       issued, requests, rateObs>>

----------------------------------------------------------------------------
(* One client address asking the rate limiter, with the clock running over
   several windows *)

RateIps == {ip1}

NextRate ==
    \/ IsRateLimited(RateIps)
    \/ GetRemainingRequests(RateIps)
    \/ Tick(WINDOW_MS)

SpecRate == Init /\ [][NextRate]_vars

----------------------------------------------------------------------------
(* lib/validation.ts: getClientIp *)

NoHeaders == [forwardedFor |-> Null, realIp |-> Null, cfConnectingIp |-> Null]

\* forwardedFor.split(',')[0]
RECURSIVE FirstItem(_)
FirstItem(s) ==
    IF s = <<>> \/ Head(s) = "," THEN <<>> ELSE <<Head(s)>> \o FirstItem(Tail(s))

Unknown == <<"u", "n", "k", "n", "o", "w", "n">>

getClientIp(headers) ==
    IF Truthy(headers.forwardedFor) /\ Len(trim(FirstItem(headers.forwardedFor.s))) > 0
    THEN trim(FirstItem(headers.forwardedFor.s))
    ELSE IF Truthy(headers.cfConnectingIp) THEN headers.cfConnectingIp.s
    ELSE IF Truthy(headers.realIp) THEN headers.realIp.s
    ELSE Unknown

----------------------------------------------------------------------------
(* app/api/optimize/route.ts: POST *)

MAX_PROMPT_LENGTH == 10000

\* the handler up to the rate limiter: the response of a request it rejects
\* itself, or the sanitized role and prompt
OptimizeValidate(body) ==
    IF body = Unparseable
    THEN [done |-> TRUE, response |-> ErrorResponse(500, "Something went wrong. Please try again.")]
    ELSE IF ~Truthy(body.role) \/ ~IsString(body.role) \/ Len(trim(body.role.s)) = 0
    THEN [done |-> TRUE, response |-> ErrorResponse(400, "Please enter a role")]
    ELSE IF ~Truthy(body.prompt) \/ ~IsString(body.prompt) \/ Len(trim(body.prompt.s)) = 0
    THEN [done |-> TRUE, response |-> ErrorResponse(400, "Please enter a prompt")]
    ELSE IF Len(body.prompt.s) > MAX_PROMPT_LENGTH
    THEN [done |-> TRUE, response |-> ErrorResponse(400, "Prompt is too long (max 10,000 characters)")]
    ELSE IF ~isValidUtf8(body.role.s) \/ ~isValidUtf8(body.prompt.s)
    THEN [done |-> TRUE, response |-> ErrorResponse(400, "Invalid character encoding")]
    ELSE IF Len(trim(sanitizeInput(body.role.s))) = 0 \/ Len(trim(sanitizeInput(body.prompt.s))) = 0
    THEN [done |-> TRUE, response |-> ErrorResponse(400, "Input contains only invalid characters")]
    ELSE [done |-> FALSE, role |-> sanitizeInput(body.role.s),
          prompt |-> sanitizeInput(body.prompt.s)]

\* session?.username || 'unknown'
SessionUsername(session) ==
    IF session # Null /\ Truthy(session.username) THEN session.username.s ELSE Unknown

\* a POST that asks the rate limiter before it validates the body
OptimizePOST_LimitsFirst(reqs, file, cookie, body, headers, apiKey, t, cleanup) ==
    LET session == getAuthenticatedUser(cookie, file, t)
        username == SessionUsername(session)
        v == OptimizeValidate(body)
        limited == isRateLimited(reqs, getClientIp(headers), t, cleanup) IN
    IF limited.ret
    THEN [response |-> ErrorResponse(429, "Too many requests. Please wait 60 seconds and try again."),
          proxied |-> FALSE, username |-> username, requests |-> limited.requests]
    ELSE IF v.done
    THEN [response |-> v.response, proxied |-> FALSE, username |-> username,
          requests |-> limited.requests]
    ELSE IF ~Truthy(apiKey)
    THEN [response |-> ErrorResponse(500, "Service configuration error. Please contact support."),
          proxied |-> FALSE, username |-> username, requests |-> limited.requests]
    ELSE [response |-> Response(200, [stream |-> "text/event-stream"]),
          proxied |-> TRUE, username |-> username, requests |-> limited.requests]

\* POST at time t: the response, whether anthropic.messages.create is called,
\* the username the handler logs, and the rate map it leaves
OptimizePOST(reqs, file, cookie, body, headers, apiKey, t, cleanup) ==
    LET session == getAuthenticatedUser(cookie, file, t)
        username == SessionUsername(session)
        v == OptimizeValidate(body)
        limited == isRateLimited(reqs, getClientIp(headers), t, cleanup) IN
    IF v.done
    THEN [response |-> v.response, proxied |-> FALSE, username |-> username, requests |-> reqs]
    ELSE IF limited.ret
    THEN [response |-> ErrorResponse(429, "Too many requests. Please wait 60 seconds and try again."),
          proxied |-> FALSE, username |-> username, requests |-> limited.requests]
    ELSE IF ~Truthy(apiKey)
    THEN [response |-> ErrorResponse(500, "Service configuration error. Please contact support."),
          proxied |-> FALSE, username |-> username, requests |-> limited.requests]
    ELSE [response |-> Response(200, [stream |-> "text/event-stream"]),
          proxied |-> TRUE, username |-> username, requests |-> limited.requests]

\* a request for /api/optimize: the middleware, then the route handler if
\* the middleware forwards it; Client are the cookie values the client may
\* send besides the ones createSession produced
OptimizeRequest(Client, Bodies, Headers, Keys) ==
    \E cookie \in IssuedCookies \cup Client :
    \E gate \in {middleware(pApiOptimize, cookie, now)} :
        IF gate.action # "next"
        THEN /\ ev' = [op |-> "optimize", cookie |-> cookie, gate |-> gate,
                       response |-> Response(307, gate), proxied |-> FALSE,
                       username |-> Unknown, at |-> now]
             /\ UNCHANGED <<now, usersFile, loginAttempts, calls, failStreak, recFails, responses,
                            issued, requests, rateObs>>
        ELSE \E body \in Bodies, headers \in Headers, apiKey \in Keys, cleanup \in BOOLEAN :
             \E res \in {OptimizePOST(requests, usersFile, cookie, body, headers, apiKey, now, cleanup)} :
                /\ requests' = res.requests
                /\ rateObs' = IF OptimizeValidate(body).done THEN rateObs
                              ELSE RateObsAfter(rateObs, getClientIp(headers), now)
                /\ ev' = [op |-> "optimize", cookie |-> cookie, gate |-> gate,
                          response |-> res.response, proxied |-> res.proxied,
                          username |-> res.username, at |-> now]
                /\ UNCHANGED <<now, usersFile, loginAttempts, calls, failStreak, recFails, responses, issued>>

----------------------------------------------------------------------------
(* Clients of the optimize route: sessions are created, users are removed,
   and requests arrive with and without session cookies *)

GoodBody == [role |-> Str(<<"d", "e", "v">>), prompt |-> Str(<<"h", "i">>)]
OptimizeBodies == {GoodBody, [role |-> Str(<<"d", "e", "v">>), prompt |-> Str(<<" ">>)]}
OptimizeHeaders == {[NoHeaders EXCEPT !.forwardedFor = Str(<<" ", "7", ",", "8">>)]}
ApiKeys == {Undefined, Str(<<"k">>)}
OptimizeCookies == {Undefined, Forged(uAli)}

NextOptimize ==
    \/ CreateSession
    \/ RemoveUser({uAli})
    \/ OptimizeRequest(OptimizeCookies, OptimizeBodies, OptimizeHeaders, ApiKeys)

SpecOptimize == Init /\ [][NextOptimize]_vars

----------------------------------------------------------------------------
(* The text of a session cookie: JSON.stringify, UTF-8, base64url and back.
   Text is a sequence of code points, bytes a sequence of 0..255, and a
   cookie value a sequence of characters of the base64url alphabet. *)

\* the printable ASCII characters, code points 32..126 in order; "<92>" stands
\* for the backslash and "<96>" for the grave accent
Printable ==
    <<" ", "!", "\"", "#", "$", "%", "&", "'", "(", ")", "*", "+", ",", "-", ".", "/",
      "0", "1", "2", "3", "4", "5", "6", "7", "8", "9", ":", ";", "<", "=", ">", "?",
      "@", "A", "B", "C", "D", "E", "F", "G", "H", "I", "J", "K", "L", "M", "N", "O",
      "P", "Q", "R", "S", "T", "U", "V", "W", "X", "Y", "Z", "[", "<92>", "]", "^", "_",
      "<96>", "a", "b", "c", "d", "e", "f", "g", "h", "i", "j", "k", "l", "m", "n", "o",
      "p", "q", "r", "s", "t", "u", "v", "w", "x", "y", "z", "{", "|", "}", "~">>

FirstPrintable == 32
REPLACEMENT == 65533

\* the character of the model for a code point
Chr(cp) ==
    IF cp >= FirstPrintable /\ cp < FirstPrintable + Len(Printable)
    THEN Printable[cp - FirstPrintable + 1]
    ELSE CASE cp = 9 -> "\t"
           [] cp = 10 -> "\n"
           [] cp = 12 -> "\f"
           [] cp = 13 -> "\r"
           [] cp = REPLACEMENT -> "<FFFD>"
           [] OTHER -> "<" \o ToString(cp) \o ">"

\* the code point of a character of the model
CodePoints == [c \in {Chr(cp) : cp \in {9, 10, 12, 13, REPLACEMENT} \cup 32..126} |->
                 CHOOSE cp \in {9, 10, 12, 13, REPLACEMENT} \cup 32..126 : Chr(cp) = c]
Ord(c) == CodePoints[c]

Chars(cps) == [i \in 1..Len(cps) |-> Chr(cps[i])]
Ords(s) == [i \in 1..Len(s) |-> Ord(s[i])]

QUOTE == Ord("\"")
BACKSLASH == Ord("<92>")

\* the UTF-8 bytes of one code point
Utf8Bytes(cp) ==
    IF cp < 128 THEN <<cp>>
    ELSE IF cp < 2048 THEN <<192 + (cp \div 64), 128 + (cp % 64)>>
    ELSE <<224 + (cp \div 4096), 128 + ((cp \div 64) % 64), 128 + (cp % 64)>>

\* s followed by the elements of the sequences of parts[i..j], in order
RECURSIVE Flatten(_, _, _)
Flatten(parts, i, j) ==
    IF i > j THEN <<>>
    ELSE IF i = j THEN parts[i]
    ELSE Flatten(parts, i, (i + j) \div 2) \o Flatten(parts, ((i + j) \div 2) + 1, j)

\* Buffer.from(text): UTF-8 of a sequence of code points
Utf8Encode(cps) == Flatten([i \in 1..Len(cps) |-> Utf8Bytes(cps[i])], 1, Len(cps))

IsContinuation(bytes, i) == i >= 1 /\ i <= Len(bytes) /\ bytes[i] >= 128 /\ bytes[i] < 192

\* a well-formed sequence of two or of three bytes starts at i
Lead2(bytes, i) ==
    i >= 1 /\ i <= Len(bytes) /\ bytes[i] >= 194 /\ bytes[i] < 224 /\ IsContinuation(bytes, i + 1)
Lead3(bytes, i) ==
    /\ i >= 1 /\ i <= Len(bytes) /\ bytes[i] >= 224 /\ bytes[i] < 240
    /\ IsContinuation(bytes, i + 1) /\ IsContinuation(bytes, i + 2)
    /\ ((bytes[i] - 224) * 4096) + ((bytes[i + 1] - 128) * 64) >= 2048
    /\ ~(bytes[i] = 237 /\ bytes[i + 1] >= 160)

\* what the byte at i contributes: the code point of the sequence that
\* starts there, nothing when it continues a well-formed sequence, and
\* U+FFFD otherwise (code points above U+FFFF are not among the inputs)
Utf8At(bytes, i) ==
    LET b == bytes[i] IN
    IF b < 128 THEN <<b>>
    ELSE IF Lead2(bytes, i) THEN <<((b - 192) * 64) + (bytes[i + 1] - 128)>>
    ELSE IF Lead3(bytes, i)
    THEN <<((b - 224) * 4096) + ((bytes[i + 1] - 128) * 64) + (bytes[i + 2] - 128)>>
    ELSE IF IsContinuation(bytes, i)
            /\ (Lead2(bytes, i - 1) \/ Lead3(bytes, i - 1) \/ Lead3(bytes, i - 2))
    THEN <<>>
    ELSE <<REPLACEMENT>>

\* buffer.toString('utf-8')
Utf8Decode(bytes) == Flatten([i \in 1..Len(bytes) |-> Utf8At(bytes, i)], 1, Len(bytes))

\* the base64url alphabet, values 0..63 in order
Base64Url ==
    <<"A", "B", "C", "D", "E", "F", "G", "H", "I", "J", "K", "L", "M", "N", "O", "P",
      "Q", "R", "S", "T", "U", "V", "W", "X", "Y", "Z", "a", "b", "c", "d", "e", "f",
      "g", "h", "i", "j", "k", "l", "m", "n", "o", "p", "q", "r", "s", "t", "u", "v",
      "w", "x", "y", "z", "0", "1", "2", "3", "4", "5", "6", "7", "8", "9", "-", "_">>

Base64Chars == {Base64Url[i] : i \in 1..Len(Base64Url)}
Sextets == [c \in Base64Chars |-> (CHOOSE i \in 1..Len(Base64Url) : Base64Url[i] = c) - 1]

\* buffer.toString('base64url'): three bytes give four characters, and the
\* last one or two bytes give two or three, without padding
Base64UrlEncode(bytes) ==
    LET Byte(k) == IF k <= Len(bytes) THEN bytes[k] ELSE 0 IN
    [j \in 1..(((Len(bytes) * 4) + 2) \div 3) |->
        LET q == 3 * ((j - 1) \div 4)
            r == (j - 1) % 4 IN
        Base64Url[1 + (CASE r = 0 -> Byte(q + 1) \div 4
                         [] r = 1 -> ((Byte(q + 1) % 4) * 16) + (Byte(q + 2) \div 16)
                         [] r = 2 -> ((Byte(q + 2) % 16) * 4) + (Byte(q + 3) \div 64)
                         [] OTHER -> Byte(q + 3) % 64)]]

\* Buffer.from(value, 'base64url') of a value over the alphabet: four
\* characters give three bytes, a last group of two or three gives one or
\* two, and a last single character gives none
Base64UrlDecode(value) ==
    LET Sextet(k) == Sextets[value[k]] IN
    [k \in 1..((Len(value) * 3) \div 4) |->
        LET q == 4 * ((k - 1) \div 3)
            r == (k - 1) % 3 IN
        CASE r = 0 -> (Sextet(q + 1) * 4) + (Sextet(q + 2) \div 16)
          [] r = 1 -> ((Sextet(q + 2) % 16) * 16) + (Sextet(q + 3) \div 4)
          [] OTHER -> ((Sextet(q + 3) % 4) * 64) + Sextet(q + 4)]

----------------------------------------------------------------------------
(* JSON.stringify of a SessionData and JSON.parse, on sequences of code
   points *)

RECURSIVE Digits(_)
Digits(n) == IF n < 10 THEN <<Ord("0") + n>> ELSE Digits(n \div 10) \o <<Ord("0") + (n % 10)>>

\* the characters of a string value between its quotes
RECURSIVE Escaped(_)
Escaped(cps) ==
    IF cps = <<>> THEN <<>>
    ELSE (CASE Head(cps) = QUOTE -> <<BACKSLASH, QUOTE>>
            [] Head(cps) = BACKSLASH -> <<BACKSLASH, BACKSLASH>>
            [] Head(cps) = 9 -> <<BACKSLASH, Ord("t")>>
            [] Head(cps) = 10 -> <<BACKSLASH, Ord("n")>>
            [] Head(cps) = 12 -> <<BACKSLASH, Ord("f")>>
            [] Head(cps) = 13 -> <<BACKSLASH, Ord("r")>>
            [] OTHER -> <<Head(cps)>>) \o Escaped(Tail(cps))

Quoted(s) == <<QUOTE>> \o Escaped(Ords(s)) \o <<QUOTE>>

\* the keys of a SessionData in the order createSession writes them
SessionKeys ==
    <<[name |-> "username", chars |-> <<"u", "s", "e", "r", "n", "a", "m", "e">>],
      [name |-> "displayName", chars |-> <<"d", "i", "s", "p", "l", "a", "y", "N", "a", "m", "e">>],
      [name |-> "token", chars |-> <<"t", "o", "k", "e", "n">>],
      [name |-> "createdAt", chars |-> <<"c", "r", "e", "a", "t", "e", "d", "A", "t">>],
      [name |-> "expiresAt", chars |-> <<"e", "x", "p", "i", "r", "e", "s", "A", "t">>]>>

ValueText(v) == IF IsString(v) THEN Quoted(v.s) ELSE Digits(v.n)

\* the members of json from key i on, each after a comma
RECURSIVE MembersText(_, _)
MembersText(json, i) ==
    IF i > Len(SessionKeys) THEN <<>>
    ELSE (IF SessionKeys[i].name \in DOMAIN json
          THEN <<Ord(",")>> \o Quoted(SessionKeys[i].chars) \o <<Ord(":")>>
                   \o ValueText(json[SessionKeys[i].name])
          ELSE <<>>) \o MembersText(json, i + 1)

\* JSON.stringify(sessionData)
JSONstringify(json) == <<Ord("{")>> \o Tail(MembersText(json, 1)) \o <<Ord("}")>>

Fail == [ok |-> FALSE]

IsWs(cp) == cp \in {32, 9, 10, 13}
IsDigit(cp) == cp >= Ord("0") /\ cp <= Ord("9")

RECURSIVE SkipWs(_, _)
SkipWs(s, i) == IF i <= Len(s) /\ IsWs(s[i]) THEN SkipWs(s, i + 1) ELSE i

At(s, i, c) == i <= Len(s) /\ s[i] = Ord(c)

HexVal(cp) ==
    IF IsDigit(cp) THEN cp - Ord("0")
    ELSE IF cp >= Ord("a") /\ cp <= Ord("f") THEN cp - Ord("a") + 10
    ELSE IF cp >= Ord("A") /\ cp <= Ord("F") THEN cp - Ord("A") + 10
    ELSE -1

\* the code point a one-character escape stands for, or -1
Unescape(cp) ==
    CASE cp = QUOTE -> QUOTE
      [] cp = BACKSLASH -> BACKSLASH
      [] cp = Ord("/") -> Ord("/")
      [] cp = Ord("b") -> 8
      [] cp = Ord("f") -> 12
      [] cp = Ord("n") -> 10
      [] cp = Ord("r") -> 13
      [] cp = Ord("t") -> 9
      [] OTHER -> -1

\* a string from the character after its opening quote
RECURSIVE ParseString(_, _, _)
ParseString(s, i, acc) ==
    IF i > Len(s) THEN Fail
    ELSE IF s[i] = QUOTE THEN [ok |-> TRUE, v |-> acc, i |-> i + 1]
    ELSE IF s[i] < 32 THEN Fail
    ELSE IF s[i] # BACKSLASH THEN ParseString(s, i + 1, Append(acc, s[i]))
    ELSE IF i + 1 > Len(s) THEN Fail
    ELSE IF Unescape(s[i + 1]) >= 0 THEN ParseString(s, i + 2, Append(acc, Unescape(s[i + 1])))
    ELSE IF /\ s[i + 1] = Ord("u") /\ i + 5 <= Len(s)
            /\ \A k \in 2..5 : HexVal(s[i + k]) >= 0
    THEN ParseString(s, i + 6,
             Append(acc, (HexVal(s[i + 2]) * 4096) + (HexVal(s[i + 3]) * 256)
                             + (HexVal(s[i + 4]) * 16) + HexVal(s[i + 5])))
    ELSE Fail

\* numbers from Huge on are all represented by Huge, which is above every
\* time the clock takes
Huge == 2147483647

RECURSIVE DigitsEnd(_, _)
DigitsEnd(s, i) == IF i <= Len(s) /\ IsDigit(s[i]) THEN DigitsEnd(s, i + 1) ELSE i

Times10(n) == IF n > (Huge \div 10) - 1 THEN Huge ELSE n * 10

\* acc followed by the digits s[i..j-1]
RECURSIVE DigitsValue(_, _, _, _)
DigitsValue(s, i, j, acc) ==
    IF i >= j THEN acc
    ELSE DigitsValue(s, i + 1, j, IF Times10(acc) = Huge THEN Huge
                                  ELSE Times10(acc) + (s[i] - Ord("0")))

RECURSIVE TimesPow10(_, _)
TimesPow10(n, k) == IF k = 0 \/ n = Huge THEN n ELSE TimesPow10(Times10(n), k - 1)

\* the number with the integer digits s[i1..i2-1], the fraction digits
\* s[i2+1..i3-1] when hasFrac, and the exponent; it ends before i5
NumberValue(s, neg, i1, i2, hasFrac, i3, exponent, i5) ==
    LET mantissa == DigitsValue(s, i2 + 1, i3, DigitsValue(s, i1, i2, 0))
        shift == exponent - (IF hasFrac THEN i3 - (i2 + 1) ELSE 0)
        divisor == TimesPow10(1, 0 - shift)
        whole == IF mantissa = 0 THEN 0
                 ELSE IF shift >= 0 THEN TimesPow10(mantissa, shift)
                 ELSE mantissa \div divisor
        inexact == mantissa # 0 /\ shift < 0 /\ mantissa % divisor # 0 IN
    [ok |-> TRUE, i |-> i5,
     v |-> IF inexact
           THEN [t |-> "number", n |-> IF neg THEN 0 - whole - 1 ELSE whole, frac |-> TRUE]
           ELSE Num(IF neg THEN 0 - whole ELSE whole)]

\* the digits of the exponent from i4 on, after its sign
NumberExponent(s, neg, i1, i2, hasFrac, i3, expNeg, i4) ==
    IF DigitsEnd(s, i4) = i4 THEN Fail
    ELSE NumberValue(s, neg, i1, i2, hasFrac, i3,
                     IF expNeg THEN 0 - DigitsValue(s, i4, DigitsEnd(s, i4), 0)
                     ELSE DigitsValue(s, i4, DigitsEnd(s, i4), 0),
                     DigitsEnd(s, i4))

\* the exponent part at i3, if there is one
NumberExp(s, neg, i1, i2, hasFrac, i3) ==
    IF At(s, i3, "e") \/ At(s, i3, "E")
    THEN NumberExponent(s, neg, i1, i2, hasFrac, i3, At(s, i3 + 1, "-"),
                        IF At(s, i3 + 1, "+") \/ At(s, i3 + 1, "-") THEN i3 + 2 ELSE i3 + 1)
    ELSE NumberValue(s, neg, i1, i2, hasFrac, i3, 0, i3)

\* the fraction part at i2, if there is one
NumberFrac(s, neg, i1, i2) ==
    IF ~At(s, i2, ".") THEN NumberExp(s, neg, i1, i2, FALSE, i2)
    ELSE IF DigitsEnd(s, i2 + 1) = i2 + 1 THEN Fail
    ELSE NumberExp(s, neg, i1, i2, TRUE, DigitsEnd(s, i2 + 1))

\* the integer part at i1: a single 0 or a run of digits
NumberInt(s, neg, i1) ==
    IF i1 > Len(s) \/ ~IsDigit(s[i1]) THEN Fail
    ELSE NumberFrac(s, neg, i1, IF At(s, i1, "0") THEN i1 + 1 ELSE DigitsEnd(s, i1))

\* a number from its first character
ParseNumber(s, i) == NumberInt(s, At(s, i, "-"), IF At(s, i, "-") THEN i + 1 ELSE i)

Matches(s, i, word) ==
    i + Len(word) - 1 <= Len(s) /\ SubSeq(s, i, i + Len(word) - 1) = Ords(word)

\* the property name of the model for a key
RECURSIVE KeyString(_)
KeyString(cps) == IF cps = <<>> THEN "" ELSE Chr(Head(cps)) \o KeyString(Tail(cps))

Array(items) == [t |-> "array", items |-> items]

RECURSIVE ParseValue(_, _)
RECURSIVE ParseMembers(_, _, _)
RECURSIVE ParseElements(_, _, _)

\* after a member: the end of the object at next, or a comma and the next key
MemberNext(s, members, next) ==
    IF At(s, next, "}") THEN [ok |-> TRUE, v |-> members, i |-> next + 1]
    ELSE IF At(s, next, ",") THEN ParseMembers(s, SkipWs(s, next + 1), members)
    ELSE Fail

\* a key given twice keeps its last value
MemberValue(s, obj, key, val) ==
    IF ~val.ok THEN Fail
    ELSE MemberNext(s, MapSet(obj, KeyString(key.v), val.v), SkipWs(s, val.i))

MemberColon(s, obj, key, colon) ==
    IF ~At(s, colon, ":") THEN Fail
    ELSE MemberValue(s, obj, key, ParseValue(s, colon + 1))

MemberKey(s, obj, key) ==
    IF ~key.ok THEN Fail
    ELSE MemberColon(s, obj, key, SkipWs(s, key.i))

\* the members of an object from the key at i on
ParseMembers(s, i, obj) ==
    IF ~At(s, i, "\"") THEN Fail
    ELSE MemberKey(s, obj, ParseString(s, i + 1, <<>>))

\* after an element: the end of the array at next, or a comma and the next
\* element
ElementNext(s, items, next) ==
    IF At(s, next, "]") THEN [ok |-> TRUE, v |-> Array(items), i |-> next + 1]
    ELSE IF At(s, next, ",") THEN ParseElements(s, next + 1, items)
    ELSE Fail

ElementValue(s, items, val) ==
    IF ~val.ok THEN Fail
    ELSE ElementNext(s, Append(items, val.v), SkipWs(s, val.i))

\* the elements of an array from the value at i on
ParseElements(s, i, items) == ElementValue(s, items, ParseValue(s, i))

StringValue(str) ==
    IF str.ok THEN [ok |-> TRUE, v |-> Str(Chars(str.v)), i |-> str.i] ELSE Fail

\* an object from the first character after its opening brace and blanks
ObjectFrom(s, j) ==
    IF At(s, j, "}") THEN [ok |-> TRUE, v |-> EmptyMap, i |-> j + 1]
    ELSE ParseMembers(s, j, EmptyMap)

\* an array from the first character after its opening bracket and blanks
ArrayFrom(s, j) ==
    IF At(s, j, "]") THEN [ok |-> TRUE, v |-> Array(<<>>), i |-> j + 1]
    ELSE ParseElements(s, j, <<>>)

\* a value from its first character
ValueAt(s, i) ==
    IF i > Len(s) THEN Fail
    ELSE IF s[i] = QUOTE THEN StringValue(ParseString(s, i + 1, <<>>))
    ELSE IF At(s, i, "{") THEN ObjectFrom(s, SkipWs(s, i + 1))
    ELSE IF At(s, i, "[") THEN ArrayFrom(s, SkipWs(s, i + 1))
    ELSE IF Matches(s, i, <<"t", "r", "u", "e">>) THEN [ok |-> TRUE, v |-> Bool(TRUE), i |-> i + 4]
    ELSE IF Matches(s, i, <<"f", "a", "l", "s", "e">>) THEN [ok |-> TRUE, v |-> Bool(FALSE), i |-> i + 5]
    ELSE IF Matches(s, i, <<"n", "u", "l", "l">>) THEN [ok |-> TRUE, v |-> Null, i |-> i + 4]
    ELSE IF At(s, i, "-") \/ IsDigit(s[i]) THEN ParseNumber(s, i)
    ELSE Fail

\* a value after blanks
ParseValue(s, i0) == ValueAt(s, SkipWs(s, i0))

\* nothing but blanks follows the value
Complete(s, r) == IF r.ok /\ SkipWs(s, r.i) > Len(s) THEN r ELSE Fail

\* JSON.parse(text): the value, or a failure where JSON.parse throws
JSONparse(s) == Complete(s, ParseValue(s, 1))

\* the text of the cookie value createSession sets for a SessionData
CookieText(json) == Base64UrlEncode(Utf8Encode(JSONstringify(json)))

\* the document of a parse, or the failure that is caught
Document(r) == IF r.ok THEN Base64Json(r.v) ELSE NotJson

\* what the first two lines of decodeSession make of the text of a cookie
\* value
ParsedCookie(text) == Document(JSONparse(Utf8Decode(Base64UrlDecode(text))))


----------------------------------------------------------------------------
(* Requests that carry a session cookie with one character changed: every
   session createSession can produce at time 0 for the first stored user,
   every position of its cookie value and every other character of the
   alphabet *)

\* value with the character at pos replaced by c
Tamper(value, pos, c) == [value EXCEPT ![pos] = c]

\* decodeSession of either variant on the text of a cookie value
decodeSessionText(variant, text, file, t) ==
    IF variant = "edge" THEN decodeSessionEdge(ParsedCookie(text), t)
    ELSE decodeSession(ParsedCookie(text), file, t)

\* a session has been created and a request with its cookie value, changed
\* in one character, is in flight
InitTamper ==
    /\ now = 0
    /\ usersFile = InitialUsers
    /\ loginAttempts = EmptyMap
    /\ ev = NoEvent
    /\ failStreak = NoStreak
    /\ recFails = EmptyMap
    /\ responses = {}
    /\ requests = <<>>
    /\ rateObs = NoCalls
    /\ \E token \in Tokens :
       \E cookie \in {createSession(loadUsers(InitialUsers)[1], token, 0, 0)} :
       \E text \in {CookieText(cookie.json)} :
       \E pos \in 1..Len(text), c \in Base64Chars :
          /\ c # text[pos]
          /\ issued = {[cookie |-> cookie, at |-> 0]}
          /\ calls = [r \in 1..MaxSlots |->
                        IF r = 1 THEN [pc |-> "decode", cookie |-> cookie, pos |-> pos, char |-> c]
                        ELSE Idle]

\* the request in slot r reaches decodeSession of one of the variants
DecodeTampered(S, Variants) ==
    \E r \in S, variant \in Variants :
        /\ calls[r].pc = "decode"
        /\ LET text == CookieText(calls[r].cookie.json)
               tampered == Tamper(text, calls[r].pos, calls[r].char) IN
           ev' = [op |-> "decodeTampered", variant |-> variant, cookie |-> calls[r].cookie,
                  pos |-> calls[r].pos, char |-> calls[r].char,
                  intact |-> decodeSessionText(variant, text, usersFile, now),
                  result |-> decodeSessionText(variant, tampered, usersFile, now),
                  at |-> now]
        /\ calls' = [calls EXCEPT ![r] = Idle]
        /\ UNCHANGED <<now, usersFile, loginAttempts, failStreak, recFails, responses,
                       issued, requests, rateObs>>

NextTamper == DecodeTampered({1}, {"full", "edge"})

SpecTamper == InitTamper /\ [][NextTamper]_vars

----------------------------------------------------------------------------
(* Revocation: users are removed while callers verify credentials and
   present sessions that were created before the removal *)

RevokeSlots == {1}
RevokeUsernames == {Str(uAli), Str(uALI)}
RevokePasswords == {Str(pwAli)}

NextRevoke ==
    \/ VerifyCall(RevokeSlots, RevokeUsernames, RevokePasswords)
    \/ VerifyReturn(RevokeSlots)
    \/ CreateSession
    \/ DecodeSession
    \/ RemoveUser({uAli})

SpecRevoke == Init /\ [][NextRevoke]_vars

----------------------------------------------------------------------------
(* Requests through the gate: allow-listed, merely prefixed and protected
   paths, with cookies that createSession produced, made-up cookies and no
   cookie, while sessions expire *)

pLoginX == <<"/", "l", "o", "g", "i", "n", "x">>
pLog == <<"/", "l", "o", "g">>

GatePaths == {pRoot, pLogin, pLoginX, pLog, pApiHealth, pApiOptimize}

NextGate ==
    \/ CreateSession
    \/ Middleware(GatePaths)
    \/ Tick(SESSION_DURATION_MS)

SpecGate == Init /\ [][NextGate]_vars

----------------------------------------------------------------------------
(* The rate limiter over its ceiling: the map starts with more than
   MAX_IPS_IN_MEMORY keys whose timestamps are older than the window, and
   callers keep asking isRateLimited.  calls[1] holds the number of times in a
   row the cleanup trigger Math.random() < 0.1 came out false. *)

\* the addresses that asked before the specification starts
BulkIps == <<"b", "u", "l", "k">>

\* a map of n keys, each with one request at time 0: a run of n keys
Bulk(n) == <<[ip |-> BulkIps, n |-> n, timestamps |-> <<0>>]>>

\* the sizes the map starts with: one or two batches away from the ceiling
EvictSizes ==
    {MAX_IPS_IN_MEMORY + 1, MAX_IPS_IN_MEMORY + CLEANUP_BATCH_SIZE,
     MAX_IPS_IN_MEMORY + CLEANUP_BATCH_SIZE + 1}

\* the callers: two addresses that are new to the map
ip2 == <<"8">>
EvictIps == {ip1, ip2}

InitEvict ==
    /\ now = WINDOW_MS
    /\ usersFile = InitialUsers
    /\ loginAttempts = EmptyMap
    /\ calls = [r \in 1..MaxSlots |-> IF r = 1 THEN [pc |-> "trigger", misses |-> 0] ELSE Idle]
    /\ ev = NoEvent
    /\ failStreak = NoStreak
    /\ recFails = EmptyMap
    /\ responses = {}
    /\ issued = {}
    /\ \E n \in EvictSizes : requests = Bulk(n)
    /\ rateObs = NoCalls

\* isRateLimited(ip) reaches the cleanup trigger
ReachesTrigger(ip) == ~OverLimit(Recent(RateGet(requests, ip), now))

\* a caller asks isRateLimited(ip) and the trigger comes out false, or the
\* call returns before the trigger
Miss(Ips) ==
    \E ip \in Ips :
        /\ calls[1].pc = "trigger"
        /\ ReachesTrigger(ip) => calls[1].misses < MaxMisses
        /\ IsRateLimitedCall(ip, FALSE)
        /\ calls' = IF ReachesTrigger(ip) THEN [calls EXCEPT ![1].misses = @ + 1] ELSE calls

\* a caller asks isRateLimited(ip) and the trigger comes out true
Hit(Ips) ==
    \E ip \in Ips :
        /\ calls[1].pc = "trigger"
        /\ ReachesTrigger(ip)
        /\ IsRateLimitedCall(ip, TRUE)
        /\ calls' = [calls EXCEPT ![1].misses = 0]

NextEvict ==
    \/ Miss(EvictIps)
    \/ Hit(EvictIps)

\* the trigger is fair: it does not come out false forever
SpecEvict == InitEvict /\ [][NextEvict]_vars /\ WF_vars(Hit(EvictIps))

----------------------------------------------------------------------------
(* The scenario of one stored user alice with the password pw12345678:
   sequential calls under two spellings of the username, with the password
   and with the password after a space *)

uAlice == <<"a", "l", "i", "c", "e">>
uAliceSp == <<"A", "l", "i", "c", "e", " ">>
pwAlice == <<"p", "w", "1", "2", "3", "4", "5", "6", "7", "8">>
pwAliceSp == <<" ">> \o pwAlice

AliceRecord == [username |-> uAlice, passwordHash |-> hashPassword(pwAlice), displayName |-> Undefined]

InitAlice ==
    /\ now = 0
    /\ usersFile = UsersJson(<<AliceRecord>>)
    /\ loginAttempts = EmptyMap
    /\ calls = [r \in 1..MaxSlots |-> Idle]
    /\ ev = NoEvent
    /\ failStreak = NoStreak
    /\ recFails = EmptyMap
    /\ responses = {}
    /\ issued = {}
    /\ requests = <<>>
    /\ rateObs = NoCalls

AliceSlots == {1}
AliceUsernames == {Str(uAlice), Str(uAliceSp)}
AlicePasswords == {Str(pwAlice), Str(pwAliceSp)}

NextAlice ==
    \/ VerifyCall(AliceSlots, AliceUsernames, AlicePasswords)
    \/ VerifyReturn(AliceSlots)

SpecAlice == InitAlice /\ [][NextAlice]_vars

----------------------------------------------------------------------------
(* Callers naming a username that users.json does not hold: calls for an
   unknown username, in two spellings, while the clock advances.  No such
   call reaches the await, so the calls run one after another. *)

\* a username users.json does not hold, in two spellings
uLia == <<"l", "i", "a">>
uLIA == <<"L", "I", "A">>

UnknownSlots == {1}
UnknownUsernames == {Str(uLia), Str(uLIA)}
UnknownPasswords == {Str(pwBob)}

NextUnknown ==
    \/ VerifyCall(UnknownSlots, UnknownUsernames, UnknownPasswords)
    \/ Tick(attemptWindow)

SpecUnknown == Init /\ [][NextUnknown]_vars

----------------------------------------------------------------------------
(* Callers passing malformed credentials: calls with a username or a
   password that is missing, not a string or empty, between calls for a
   stored username with a password that is not its own *)

InvalidSlots == {1}
InvalidUsernames == {Undefined, Num(5), Str(<<" ">>), Str(uAli)}
InvalidPasswords == {Undefined, Num(5), Str(<<>>), Str(MutateAt(pwAli, 1, "x"))}

NextInvalid ==
    \/ VerifyCall(InvalidSlots, InvalidUsernames, InvalidPasswords)
    \/ VerifyReturn(InvalidSlots)
    \/ Tick(attemptWindow)

SpecInvalid == Init /\ [][NextInvalid]_vars

----------------------------------------------------------------------------
(* One caller who keeps the times of the failed attempts: the caller awaits
   each verifyCredentials call before making the next, with a password that
   is not the stored one, and notes when a failure was recorded; the clock
   advances by whole attempt windows and by milliseconds *)

\* the times of the last maxAttempts failures the caller noted
FailedAt(c) == IF "failedAt" \in DOMAIN c THEN c.failedAt ELSE <<>>

LastFailures(times) ==
    IF Len(times) > maxAttempts THEN SubSeq(times, Len(times) - maxAttempts + 1, Len(times))
    ELSE times

\* verifyCredentials from its entry to its return, no other call in between
verifyCredentialsAwaited(la, file, username, password, t) ==
    LET enter == verifyCredentialsEnter(la, file, username, password, t) IN
    IF enter.done THEN enter
    ELSE verifyCredentialsResume(enter.la, username, password, enter.user, t)

Attempt(U, P) ==
    \E username \in U, password \in P :
        /\ calls[1].pc = "idle"
        /\ LET res == verifyCredentialsAwaited(loginAttempts, usersFile, username, password, now) IN
           /\ loginAttempts' = res.la
           /\ ev' = VerifyEvent(username, password, res.result, res.cause, res.la)
           /\ calls' = [calls EXCEPT ![1] =
                           [pc |-> "idle",
                            failedAt |-> IF res.cause \in {"wrongpw", "nouser"}
                                         THEN LastFailures(Append(FailedAt(calls[1]), now))
                                         ELSE FailedAt(calls[1])]]
        /\ UNCHANGED <<now, usersFile, failStreak, recFails, responses, issued, requests, rateObs>>

WindowUsernames == {Str(uAli)}
WindowPasswords == {Str(MutateAt(pwAli, 1, "x"))}

NextWindow ==
    \/ Attempt(WindowUsernames, WindowPasswords)
    \/ Tick(attemptWindow)

SpecWindow == Init /\ [][NextWindow]_vars

----------------------------------------------------------------------------
(* Clients who keep the times at which they were admitted: each call of
   isRateLimited that returns false is noted under its key, and a note is
   dropped once it is WINDOW_MS old; the clock runs over several windows *)

\* the notes of the clients: for each key the times of its admitted calls
AdmittedAt(c) == IF "admittedAt" \in DOMAIN c THEN c.admittedAt ELSE EmptyMap
NotesOf(c, ip) == IF MapHas(AdmittedAt(c), ip) THEN AdmittedAt(c)[ip] ELSE <<>>

\* the times in notes that lie in the trailing window (t - WINDOW_MS, t]
InTrailingWindow(notes, t) == SelectSeq(notes, LAMBDA x : x > t - WINDOW_MS /\ x <= t)

IsRateLimitedNoted(Ips) ==
    \E ip \in Ips, cleanup \in BOOLEAN :
        /\ calls[1].pc = "idle"
        /\ IsRateLimitedCall(ip, cleanup)
        /\ calls' = [calls EXCEPT ![1] =
                        [pc |-> "idle",
                         admittedAt |->
                             IF isRateLimited(requests, ip, now, cleanup).ret
                             THEN AdmittedAt(calls[1])
                             ELSE MapSet(AdmittedAt(calls[1]), ip,
                                         Append(InTrailingWindow(NotesOf(calls[1], ip), now), now))]]

AdmitIps == {ip2}

NextAdmit ==
    \/ IsRateLimitedNoted(AdmitIps)
    \/ Tick(WINDOW_MS)

SpecAdmit == Init /\ [][NextAdmit]_vars

----------------------------------------------------------------------------
(* Two callers in a map that is full of other keys: at time WINDOW_MS the map
   holds the two callers, each with a request at time 0 (outside the window)
   and one at time 1 (inside), and runs of other keys whose only request is
   outside the window (Bulk) or inside it (Fresh), below and above the
   ceiling.  The callers ask isRateLimited and getRemainingRequests. *)

FreshIps == <<"f", "r", "e", "s", "h">>

\* a run of n keys, each with one request at time 1
Fresh(n) == <<[ip |-> FreshIps, n |-> n, timestamps |-> <<1>>]>>

\* the other keys of the map, in iteration order
KeyShapes ==
    {Bulk(MAX_IPS_IN_MEMORY - 2), Bulk(MAX_IPS_IN_MEMORY - 1),
     Bulk(MAX_IPS_IN_MEMORY + CLEANUP_BATCH_SIZE),
     Fresh(MAX_IPS_IN_MEMORY - 1),
     Fresh(CLEANUP_BATCH_SIZE + 1) \o Bulk(MAX_IPS_IN_MEMORY),
     Bulk(CLEANUP_BATCH_SIZE - 1) \o Fresh(MAX_IPS_IN_MEMORY)}

KeyIps == {ip1, ip2}

InitKeys ==
    /\ now = WINDOW_MS
    /\ usersFile = InitialUsers
    /\ loginAttempts = EmptyMap
    /\ calls = [r \in 1..MaxSlots |-> Idle]
    /\ ev = NoEvent
    /\ failStreak = NoStreak
    /\ recFails = EmptyMap
    /\ responses = {}
    /\ issued = {}
    /\ \E shape \in KeyShapes :
          requests = <<[ip |-> ip1, timestamps |-> <<0, 1>>],
                       [ip |-> ip2, timestamps |-> <<0, 1>>]>> \o shape
    /\ rateObs = NoCalls

NextKeys ==
    \/ IsRateLimited(KeyIps)
    \/ GetRemainingRequests(KeyIps)

SpecKeys == InitKeys /\ [][NextKeys]_vars

----------------------------------------------------------------------------
(* Storage failure: users.json goes missing, is truncated to nothing, is
   overwritten with text that is no JSON or with a JSON document without a
   users array, while callers verify credentials and present a session that
   was created before *)

\* users.json does not exist
FileAbsent == [kind |-> "absent"]
\* users.json holds nothing but white space
FileEmpty == [kind |-> "empty"]
\* users.json holds text JSON.parse throws on
FileUnparseable == [kind |-> "text"]
\* users.json holds a JSON document that is null or has no array users
FileNoArray == [kind |-> "object"]

UnusableFiles == {FileAbsent, FileEmpty, FileUnparseable, FileNoArray}

\* the file becomes unusable
StoreFails ==
    /\ usersFile \notin UnusableFiles
    /\ \E file \in UnusableFiles : usersFile' = file
    /\ ev' = [op |-> "storeFails", at |-> now]
    /\ UNCHANGED <<now, loginAttempts, calls, failStreak, recFails, responses, issued,
                   requests, rateObs>>

FailSlots == {1}
FailUsernames == {Str(uAli)}
FailPasswords == {Str(pwAli)}

\* a session has been created for the first stored user
InitFail ==
    /\ now = 0
    /\ usersFile = InitialUsers
    /\ loginAttempts = EmptyMap
    /\ calls = [r \in 1..MaxSlots |-> Idle]
    /\ ev = NoEvent
    /\ failStreak = NoStreak
    /\ recFails = EmptyMap
    /\ responses = {}
    /\ \E token \in Tokens :
          issued = {[cookie |-> createSession(loadUsers(InitialUsers)[1], token, 0, 0),
                     at |-> 0]}
    /\ requests = <<>>
    /\ rateObs = NoCalls

NextFail ==
    \/ VerifyCall(FailSlots, FailUsernames, FailPasswords)
    \/ VerifyReturn(FailSlots)
    \/ DecodeSession
    \/ StoreFails
    \/ Tick(attemptWindow)

SpecFail == InitFail /\ [][NextFail]_vars

----------------------------------------------------------------------------
(* Clients of the optimize route behind two addresses, in a map that already
   holds requests of both and is full of other keys: requests arrive without
   a cookie and with one the gate forwards, with a body the handler accepts,
   one it rejects and one that is no JSON, with and without an API key *)

QuotaCookies == {Undefined, Forged(uAli)}
QuotaBodies ==
    {GoodBody, [role |-> Str(<<"d", "e", "v">>), prompt |-> Str(<<" ">>)], Unparseable}
QuotaHeaders ==
    {[NoHeaders EXCEPT !.forwardedFor = Str(<<" ", "7", ",", "8">>)],
     [NoHeaders EXCEPT !.realIp = Str(<<"8">>)]}

NextQuota == OptimizeRequest(QuotaCookies, QuotaBodies, QuotaHeaders, ApiKeys)

SpecQuota == InitKeys /\ [][NextQuota]_vars

----------------------------------------------------------------------------
(* Properties *)

\* the password is the one whose hash the record of username holds
CorrectFor(file, username, password) ==
    /\ findUser(file, username.s) # Null
    /\ bcryptCompare(password.s, findUser(file, username.s).passwordHash)

\* C1: after 5 failed attempts for one username, the first made with no prior
\* state and each within the attempt window of the one before, an attempt made less than the lockout duration
\* after the 5th returns null whatever the password and isLockedOut is true;
\* an attempt with the correct password made once the lockout duration has
\* elapsed returns the user record.
C1_LockoutThenRecovery ==
    /\ (failStreak.n = maxAttempts /\ now < failStreak.at + lockoutDuration)
          => isLockedOut(loginAttempts, Watched.s, now).ret
    /\ (ev.op = "verifyCredentials" /\ WellFormed(ev.username, ev.password)
            /\ ev.streak.n = maxAttempts)
          => IF ev.at < ev.streak.at + lockoutDuration
             THEN ev.result = Null /\ ev.cause = "locked"
             ELSE CorrectFor(usersFile, ev.username, ev.password)
                      => ev.result = findUser(usersFile, ev.username.s)

C1_Witness ==
    /\ ev.op = "verifyCredentials"
    /\ ev.streak.n = maxAttempts
    /\ ev.at >= ev.streak.at + lockoutDuration
    /\ ev.result # Null

\* C6: the failures recorded for a key since it had no state, each within the
\* attempt window of the one before, are all counted, also when the failing
\* calls were in flight together: the count equals their number, and once it
\* has reached maxAttempts the lockout is set (two calls that both found
\* count 4 leave count 6, not 5).
C6_NoLostFailure ==
    \A k \in DOMAIN recFails :
        recFails[k].one =>
            /\ MapHas(loginAttempts, k)
            /\ loginAttempts[k].count = recFails[k].n
            /\ recFails[k].n >= maxAttempts => HasLock(loginAttempts[k])

C6_Witness ==
    /\ ev.op = "verifyCredentials" /\ ev.cause = "wrongpw"
    /\ ev.prior # Null /\ ev.prior.count = maxAttempts
    /\ \E k \in DOMAIN recFails : recFails[k].one /\ recFails[k].n = maxAttempts + 1

\* C10: a failure recorded more than the attempt window after the previous
\* recorded failure of the username leaves count 1, the time of this failure
\* and no lockedUntil, whatever the count and the lockout were before.
C10_NewWindowResets ==
    (/\ ev.op = "verifyCredentials"
     /\ ev.cause \in {"wrongpw", "nouser"}
     /\ ev.prior # Null
     /\ ev.at - ev.prior.lastAttempt > attemptWindow)
        => ev.after = [count |-> 1, lastAttempt |-> ev.at]

C10_Witness ==
    /\ ev.op = "verifyCredentials" /\ ev.cause = "wrongpw"
    /\ ev.prior # Null /\ HasLock(ev.prior) /\ ev.at < ev.prior.lockedUntil
    /\ ev.at - ev.prior.lastAttempt > attemptWindow
    /\ ev.after = [count |-> 1, lastAttempt |-> ev.at]

\* the strings p and q have the same length and differ in exactly one character
OneCharApart(p, q) ==
    /\ Len(p) = Len(q)
    /\ Cardinality({i \in 1..Len(p) : p[i] # q[i]}) = 1

\* C8: with no lockout state for the username and a record holding the hash
\* of the stored password, verifyCredentials returns the record for the
\* stored password and null for every password one character apart from it.
C8_ExactPassword ==
    (/\ ev.op = "verifyCredentials"
     /\ WellFormed(ev.username, ev.password)
     /\ ev.prior = Null
     /\ findUser(usersFile, ev.username.s) # Null)
        => LET user == findUser(usersFile, ev.username.s) IN
           /\ ev.password.s = StoredPassword(user) => ev.result = user
           /\ OneCharApart(ev.password.s, StoredPassword(user)) => ev.result = Null

\* C9: spellings of one username that differ by case or by surrounding
\* whitespace share one LoginAttemptState: the state found for each is the
\* same and isLockedOut agrees on them.
C9_OneStatePerUsername ==
    \A u1, u2 \in NameSpellings :
        trim(toLowerCase(u1)) = trim(toLowerCase(u2))
            => /\ PriorEntry(loginAttempts, Str(u1)) = PriorEntry(loginAttempts, Str(u2))
               /\ isLockedOut(loginAttempts, u1, now).ret = isLockedOut(loginAttempts, u2, now).ret

\* C7: the login route answers every authentication that fails after input
\* validation with the same response, 401 and the one message 'Invalid
\* credentials', whether the username is unknown, the password is wrong or
\* the account is locked.
C7_UniformFailure ==
    /\ \A x, y \in responses : x.response = y.response
    /\ \A x \in responses : x.response = InvalidCredentials

C7_Witness ==
    {x.cause : x \in responses} = {"nouser", "wrongpw", "locked"}

\* C2: every cookie value that a decodeSession variant or the gate accepts as
\* a session was produced by createSession.
C2_OnlyIssuedAccepted ==
    /\ (ev.op = "decodeSession" /\ ev.result # Null) => ev.cookie \in IssuedCookies
    /\ (ev.op = "middleware" /\ ev.result.action = "next"
            /\ ~\E path \in publicPaths : startsWith(ev.pathname, path))
          => ev.cookie \in IssuedCookies

\* C3: a session created at T decodes (the user still being stored, for the
\* full variant) at every time before T + SESSION_DURATION_MS and decodes to
\* null at every time from T + SESSION_DURATION_MS on.
C3_ExpiryInterval ==
    \A i \in issued :
        (/\ ev.op = "decodeSession"
         /\ ev.cookie = i.cookie
         /\ ev.variant = "full" => ev.userExists)
            => IF ev.at < i.at + SESSION_DURATION_MS
               THEN ev.result # Null
               ELSE ev.result = Null

\* C5: for one key, each of the first 10 isRateLimited calls made less than
\* 60 s after the first call returns false, the 11th call made in that time
\* returns true, and the first call made 60 s or more after the first call
\* returns false.
C5_WindowOfTen ==
    (ev.op = "isRateLimited" /\ ev.ip = WatchedIp) =>
        /\ (ev.at < ev.first + 60000 /\ ev.nth <= 10) => ev.result = FALSE
        /\ (ev.at < ev.first + 60000 /\ ev.nth = 11) => ev.result = TRUE
        /\ (ev.at >= ev.first + 60000 /\ ev.after = "first") => ev.result = FALSE

\* the key was refused as the 11th caller of its first window and is admitted
\* by the first call after the window
C5_Witness ==
    /\ ev.op = "isRateLimited" /\ ev.ip = WatchedIp
    /\ ev.nth >= 11 /\ ev.after = "first" /\ ev.at >= ev.first + 60000
    /\ ev.result = FALSE

\* C4: a request to the optimize route that carries an unexpired cookie
\* produced by createSession, for a username no longer in the user store, is
\* not proxied to the generation API.
C4_DeletedUserBlocked ==
    (/\ ev.op = "optimize"
     /\ ev.cookie \in IssuedCookies
     /\ decodeSessionEdge(ev.cookie, ev.at) # Null
     /\ findUser(usersFile, decodeSessionEdge(ev.cookie, ev.at).username.s) = Null)
        => ~ev.proxied

\* C11: decodeSession of either variant returns null for every cookie value
\* that differs in one character from a value createSession produced.
C11_TamperRejected ==
    (ev.op = "decodeTampered" /\ ev.intact # Null) => ev.result = Null

\* users.json holds a record that findUser's comparison matches with username
InStore(file, username) ==
    \E i \in 1..Len(loadUsers(file)) :
        trim(toLowerCase(loadUsers(file)[i].username)) = trim(toLowerCase(username))

\* username had a record in the initial users.json and has none in file
Removed(file, username) == InStore(InitialUsers, username) /\ ~InStore(file, username)

\* a step in which a verifyCredentials call for a removed username starts
\* awaiting the password comparison
StartsComparing ==
    \E r \in DOMAIN calls :
        /\ calls[r].pc = "idle" /\ calls'[r].pc = "compare"
        /\ Removed(usersFile, calls'[r].username.s)

\* a step in which a verifyCredentials call for a removed username starts and
\* returns
StartsAndReturns ==
    /\ calls' = calls /\ ev' # ev /\ ev'.op = "verifyCredentials"
    /\ IsString(ev'.username) /\ Removed(usersFile, ev'.username.s)

\* a step in which the full decodeSession is called with a cookie that
\* carries a removed username
DecodesRemoved ==
    /\ ev' # ev /\ ev'.op = "decodeSession" /\ ev'.variant = "full"
    /\ decodeSessionCore(ev'.cookie, now) # Null
    /\ Removed(usersFile, decodeSessionCore(ev'.cookie, now).username.s)

C12_Step ==
    /\ ~StartsComparing
    /\ StartsAndReturns => ev'.result = Null
    /\ DecodesRemoved => ev'.result = Null

\* C12: once a user's record is removed from users.json, every
\* verifyCredentials call and every full decodeSession call that starts
\* afterwards for that username returns null: the call returns in the step it
\* starts in, with null, also with the stored password and with an unexpired
\* cookie that createSession produced before the removal.
C12_RevokedIsNull == [][C12_Step]_vars

\* the removed user's stored password was just verified to null while a
\* cookie created for the user before the removal is unexpired and decodes to
\* null
C12_Witness ==
    /\ ev.op = "verifyCredentials" /\ ev.at = now /\ ev.result = Null
    /\ Removed(usersFile, ev.username.s)
    /\ \E u \in DOMAIN InitialUsers.users :
         /\ trim(toLowerCase(InitialUsers.users[u].username)) = trim(toLowerCase(ev.username.s))
         /\ bcryptCompare(ev.password.s, InitialUsers.users[u].passwordHash)
    /\ \E i \in issued :
         /\ decodeSessionCore(i.cookie, now) # Null
         /\ trim(toLowerCase(decodeSessionCore(i.cookie, now).username.s)) = trim(toLowerCase(ev.username.s))
         /\ decodeSession(i.cookie, usersFile, now) = Null

\* a JavaScript string that has no UTF-8 encoding: it holds a lone surrogate
NotUtf8(s) == \E i \in 1..Len(s) : s[i] = LoneSurrogate

\* a field of a login body that is missing, not a string, empty or not valid
\* UTF-8
BadField(v) == ~IsString(v) \/ Len(v.s) = 0 \/ NotUtf8(v.s)

\* a login body that cannot be parsed or has a bad username or password; a
\* username of white space counts as empty
Malformed(body) ==
    \/ body = Unparseable
    \/ BadField(body.username) \/ BadField(body.password)
    \/ Len(trim(body.username.s)) = 0

\* C13: a login request is answered 400 exactly when the body is unparseable
\* or its username or password is missing, not a string, empty or not valid
\* UTF-8; otherwise 401 when verifyCredentials returned null, 200 with
\* success, username and displayName and the cookie when it returned a user
\* and createSession succeeded, 500 when createSession threw; no response but
\* the 200 sets the cookie.
C13_FourOutcomes ==
    ev.op = "login" =>
        LET r == ev.response IN
        IF Malformed(ev.request) THEN r.status = 400 /\ r.setCookie = Undefined
        ELSE \/ /\ r.status = 401 /\ r.setCookie = Undefined
                /\ ev.cause \in {"invalid", "locked", "nouser", "wrongpw"}
             \/ /\ r.status = 200 /\ r.setCookie # Undefined
                /\ ev.cause = "ok" /\ r.body.success
                /\ {"username", "displayName"} \subseteq DOMAIN r.body
             \/ /\ r.status = 500 /\ r.setCookie = Undefined
                /\ ev.cause = "session"

\* pathname starts with a prefix of the allow-list
AllowListed(pathname) == \E path \in publicPaths : startsWith(pathname, path)

\* the request carries a cookie that the restricted decodeSession accepts at t
HasSession(cookie, t) == cookie # Undefined /\ decodeSessionEdge(cookie, t) # Null

\* C14: the gate forwards a request exactly when its path starts with an
\* allow-listed prefix or the restricted decode of its cookie returns a
\* session; every other request is redirected to /login with returnTo equal
\* to the path of the request.
C14_GateForwardsIff ==
    ev.op = "middleware" =>
        IF AllowListed(ev.pathname) \/ HasSession(ev.cookie, ev.at)
        THEN ev.result = [action |-> "next"]
        ELSE ev.result = [action |-> "redirect", location |-> pLogin, returnTo |-> ev.pathname]

\* a protected path was requested with a cookie that createSession produced
\* and that has expired, and the request was redirected
C14_Witness ==
    /\ ev.op = "middleware" /\ ~AllowListed(ev.pathname)
    /\ ev.cookie \in IssuedCookies
    /\ ev.result.action = "redirect" /\ ev.result.returnTo = ev.pathname
    /\ \E i \in issued : i.cookie = ev.cookie /\ ev.at > i.at + SESSION_DURATION_MS

\* the map holds more keys than MAX_IPS_IN_MEMORY
OverCeiling == MapSize(requests) > MAX_IPS_IN_MEMORY

\* C15: when the map holds more than MAX_IPS_IN_MEMORY keys, the keys above
\* the ceiling having only timestamps older than the window, and callers
\* keep asking isRateLimited with a fair cleanup trigger, the number of keys
\* is eventually at most MAX_IPS_IN_MEMORY.
C15_BackUnderCeiling == OverCeiling ~> ~OverCeiling

\* a call whose trigger came out true has just brought the map from above
\* the ceiling to at most the ceiling
C15_Witness ==
    /\ ev.op = "isRateLimited" /\ ~ev.result
    /\ calls[1].pc = "trigger" /\ calls[1].misses = 0
    /\ MapSize(requests) <= MAX_IPS_IN_MEMORY
    /\ MapSize(requests) > MAX_IPS_IN_MEMORY - CLEANUP_BATCH_SIZE

\* a call for the username "Alice " that found no failed-attempt state
AliceCall(password) ==
    /\ ev.op = "verifyCredentials"
    /\ ev.username = Str(uAliceSp) /\ ev.password = Str(password)
    /\ ev.prior = Null

\* C16: with alice stored under hash("pw12345678") and no lockout state,
\* verify("Alice ", " pw12345678") returns a record.
C16_ScenarioAccepted == AliceCall(pwAliceSp) => ev.result # Null

\* C16 (amended): with alice stored under hash("pw12345678") and no lockout
\* state, verify("Alice ", "pw12345678") returns the record alice, and
\* verify("Alice ", " pw12345678"), whose password starts with a space,
\* returns null.
C16_ScenarioExact ==
    /\ AliceCall(pwAlice) => ev.result = AliceRecord
    /\ AliceCall(pwAliceSp) => ev.result = Null

\* verify("Alice ", "pw12345678") has returned the record alice
C16_Witness == AliceCall(pwAlice) /\ ev.result = AliceRecord

\* the lockout of the call's username was active when the call returned
LockActive == ev.prior # Null /\ HasLock(ev.prior) /\ ev.at < ev.prior.lockedUntil

\* C17: no verifyCredentials call returns a user record or deletes the
\* failed-attempt state of its username while the lockout of that username
\* is active, also when calls interleave at the password comparison.
C17_LockoutHolds ==
    (ev.op = "verifyCredentials" /\ LockActive) =>
        /\ ev.result = Null
        /\ ev.after # Null

\* C18: between a username having no failed-attempt state and the expiry of
\* its lockout, at most maxAttempts password comparisons are evaluated
\* against the hash of the username, also when the calls are in flight
\* together: the comparisons that failed since the key had no state, each
\* within the attempt window of the one before, number at most maxAttempts.
C18_FiveGuesses ==
    \A k \in DOMAIN recFails :
        (recFails[k].one /\ FirstMatch(loadUsers(usersFile), k) # Null)
            => recFails[k].n <= maxAttempts

\* a verifyCredentials call for a well-formed username and password ran from
\* its start to its return in this step, and found the username locked: the
\* map held a lockedUntil later than the clock under the key of the username
FindsLocked ==
    /\ ev' # ev
    /\ ev'.op = "verifyCredentials"
    /\ calls' = calls
    /\ WellFormed(ev'.username, ev'.password)
    /\ MapHas(loginAttempts, toLowerCase(ev'.username.s))
    /\ HasLock(loginAttempts[toLowerCase(ev'.username.s)])
    /\ now < loginAttempts[toLowerCase(ev'.username.s)].lockedUntil

\* the call of the step does the same on a users.json that was emptied
StoreNotRead ==
    verifyCredentialsEnter(loginAttempts, UsersJson(<<>>), ev'.username, ev'.password, now)
        = verifyCredentialsEnter(loginAttempts, usersFile, ev'.username, ev'.password, now)

C19_Step ==
    FindsLocked =>
        /\ ev'.result = Null
        /\ ev'.cause = "locked"
        /\ loginAttempts' = loginAttempts
        /\ ev'.after = ev'.prior
        /\ StoreNotRead

\* C19: a verifyCredentials call that finds the username locked returns null,
\* does the same whatever users.json holds, and leaves the map of failed
\* attempts as it was: count, lastAttempt and lockedUntil of the username are
\* unchanged, so the call does not extend the lockout.
C19_LockedIsFrame == [][C19_Step]_vars

C19_Witness ==
    /\ ev.op = "verifyCredentials" /\ ev.cause = "locked"
    /\ ev.prior # Null /\ HasLock(ev.prior) /\ ev.at < ev.prior.lockedUntil
    /\ ev.at > ev.prior.lastAttempt
    /\ ev.after = ev.prior
    /\ findUser(usersFile, ev.username.s) # Null


\* a verifyCredentials call for a well-formed username that is not locked and
\* has no record in users.json ran in this step
FailsUnknown ==
    /\ ev' # ev
    /\ ev'.op = "verifyCredentials"
    /\ calls' = calls
    /\ WellFormed(ev'.username, ev'.password)
    /\ ~isLockedOut(loginAttempts, ev'.username.s, now).ret
    /\ findUser(usersFile, ev'.username.s) = Null

\* the map a wrong-password failure leaves for the same username at the same
\* instant: the return of verifyCredentials after a comparison with a hash
\* the password does not match
LikeWrongPassword ==
    verifyCredentialsResume(isLockedOut(loginAttempts, ev'.username.s, now).la,
                            ev'.username, ev'.password,
                            [username |-> ev'.username.s, passwordHash |-> hashPassword(pwAli),
                             displayName |-> Undefined],
                            now)

C20_Step ==
    FailsUnknown =>
        /\ ev'.result = Null
        /\ LikeWrongPassword.cause = "wrongpw"
        /\ loginAttempts' = LikeWrongPassword.la
        /\ LET k == toLowerCase(ev'.username.s) IN
           /\ MapHas(recFails', k)
           /\ (recFails'[k].one /\ recFails'[k].n < maxAttempts)
                  => (loginAttempts'[k].count = recFails'[k].n /\ ~HasLock(loginAttempts'[k]))
           /\ (recFails'[k].one /\ recFails'[k].n = maxAttempts)
                  => /\ loginAttempts'[k].count = maxAttempts
                     /\ HasLock(loginAttempts'[k])
                     /\ loginAttempts'[k].lockedUntil = now + lockoutDuration

\* C20: a verifyCredentials call for a username that has no record in
\* users.json returns null and leaves the map of failed attempts as a
\* wrong-password failure of that username at that instant leaves it; the
\* fifth such failure in a row, each within the attempt window of the one
\* before, sets the lockout of the username.
C20_UnknownRecorded == [][C20_Step]_vars

C20_Witness ==
    /\ ev.op = "verifyCredentials" /\ ev.cause = "nouser"
    /\ findUser(usersFile, ev.username.s) = Null
    /\ ev.result = Null
    /\ ev.prior # Null /\ ev.prior.count = maxAttempts - 1 /\ ~HasLock(ev.prior)
    /\ ev.after # Null /\ ev.after.count = maxAttempts
    /\ HasLock(ev.after) /\ ev.after.lockedUntil = ev.at + lockoutDuration
    /\ \E k \in DOMAIN recFails : recFails[k].one /\ recFails[k].n = maxAttempts


\* a verifyCredentials call with a malformed username or password ran in this
\* step
CallsMalformed ==
    /\ ev' # ev
    /\ ev'.op = "verifyCredentials"
    /\ ~WellFormed(ev'.username, ev'.password)

C21_Step ==
    CallsMalformed =>
        /\ ev'.result = Null
        /\ calls' = calls
        /\ loginAttempts' = loginAttempts
        /\ usersFile' = usersFile
        /\ verifyCredentialsEnter(loginAttempts, UsersJson(<<>>), ev'.username, ev'.password, now)
               = verifyCredentialsEnter(loginAttempts, usersFile, ev'.username, ev'.password, now)

\* C21: a verifyCredentials call whose username is missing, not a string or
\* empty after trimming, or whose password is missing, not a string or empty,
\* returns null in the step it starts in, leaves the map of failed attempts
\* and users.json as they were, and does the same whatever users.json holds.
C21_MalformedIsFrame == [][C21_Step]_vars

C21_Witness ==
    /\ ev.op = "verifyCredentials" /\ ev.cause = "invalid"
    /\ ev.username = Str(uAli) /\ ev.password = Str(<<>>)
    /\ ev.result = Null
    /\ MapHas(loginAttempts, uAli) /\ loginAttempts[uAli].count = 2


\* the state of a username: no entry, an entry without lockedUntil, or an
\* entry with lockedUntil
StateOf(e) == IF e = Null THEN "CLEAN" ELSE IF HasLock(e) THEN "LOCKED" ELSE "ACCUMULATING"

\* the map that holds the entry e, if any, under the key of username
MapOf(username, e) ==
    IF e = Null THEN EmptyMap ELSE MapSet(EmptyMap, toLowerCase(username.s), e)

\* C22: every stored state has count >= 1, and lockedUntil exactly when count
\* >= maxAttempts, then equal to lastAttempt + lockoutDuration;
\* recordFailedAttempt reports lockedOut exactly on the calls that leave
\* lockedUntil set; and the state of a username moves only from CLEAN to
\* ACCUMULATING, from ACCUMULATING to LOCKED or (on success) to CLEAN, and from
\* LOCKED to CLEAN: a call that returns while the lockout is active does not
\* leave the username ACCUMULATING, and no call takes it from CLEAN to LOCKED.
C22_StateMachine ==
    /\ \A k \in DOMAIN loginAttempts :
          /\ loginAttempts[k].count >= 1
          /\ HasLock(loginAttempts[k]) <=> loginAttempts[k].count >= maxAttempts
          /\ HasLock(loginAttempts[k])
                => loginAttempts[k].lockedUntil = loginAttempts[k].lastAttempt + lockoutDuration
    /\ (ev.op = "verifyCredentials" /\ ev.cause \in {"wrongpw", "nouser"})
          => (recordFailedAttempt(MapOf(ev.username, ev.prior), ev.username.s, ev.at).ret.lockedOut
                 <=> HasLock(ev.after))
    /\ (ev.op = "verifyCredentials" /\ ev.cause # "invalid")
          => /\ StateOf(ev.prior) = "CLEAN" => StateOf(ev.after) # "LOCKED"
             /\ LockActive => StateOf(ev.after) # "ACCUMULATING"


\* C23: a username becomes locked only by five failures within one attempt
\* window: when a failed call leaves lockedUntil set, the caller has noted
\* maxAttempts failures and the oldest of the last maxAttempts is at most
\* attemptWindow older than this one.
C23_FiveWithinWindow ==
    (/\ ev.op = "verifyCredentials"
     /\ ev.cause \in {"wrongpw", "nouser"}
     /\ HasLock(ev.after))
        => /\ Len(FailedAt(calls[1])) = maxAttempts
           /\ ev.at - FailedAt(calls[1])[1] <= attemptWindow


\* C24: at every instant the calls of one key that isRateLimited admitted
\* with a time in the trailing window (now - 60 s, now] number at most 10, and
\* no key of the map holds more than 10 timestamps.
C24_AtMostTenAdmitted ==
    /\ \A i \in 1..Len(requests) : Len(requests[i].timestamps) <= 10
    /\ \A ip \in DOMAIN AdmittedAt(calls[1]) :
          Len(InTrailingWindow(NotesOf(calls[1], ip), now)) <= 10

\* a call is refused while ten admitted calls, made at two instants, are in
\* the trailing window
C24_Witness ==
    /\ ev.op = "isRateLimited" /\ ev.result = TRUE
    /\ Len(InTrailingWindow(NotesOf(calls[1], ev.ip), now)) = 10
    /\ NotesOf(calls[1], ev.ip)[1] < NotesOf(calls[1], ev.ip)[10]
    /\ Len(RateGet(requests, ev.ip)) = 10


\* the keys of the map
KeysIn(reqs) == {reqs[i].ip : i \in 1..Len(reqs)}

\* the number of keys that hold the timestamps of the key ip
CountOf(reqs, ip) ==
    LET hits == SelectSeq(reqs, LAMBDA e : e.ip = ip) IN
    IF hits = <<>> THEN 0 ELSE KeysOf(hits[1])

\* an isRateLimited call ran in this step
CallsLimiter == ev'.op = "isRateLimited" /\ (ev' # ev \/ requests' # requests)

C25_Step ==
    CallsLimiter =>
        /\ ev'.result = TRUE => requests' = requests
        /\ ev'.result = FALSE =>
              /\ RateGet(requests', ev'.ip)
                     = Append(InTrailingWindow(RateGet(requests, ev'.ip), now), now)
              /\ \A k \in KeysIn(requests) \ {ev'.ip} :
                    InTrailingWindow(RateGet(requests', k), now)
                        = InTrailingWindow(RateGet(requests, k), now)
              /\ \A k \in KeysIn(requests') : k \in KeysIn(requests) \cup {ev'.ip}

\* C25: an isRateLimited call that returns true leaves the map as it was; a
\* call that returns false leaves under its key the timestamps of the window
\* with the current time appended, leaves the timestamps of the window of
\* every other key as they were, and adds no other key.
C25_RefusedIsFrame == [][C25_Step]_vars

\* a call for one key was admitted and its cleanup removed expired keys and
\* the expired timestamp of the other key, whose timestamp of the window stays
C25_Witness ==
    /\ ev.op = "isRateLimited" /\ ev.result = FALSE /\ ev.ip = ip1
    /\ RateGet(requests, ip1) = <<1, WINDOW_MS>>
    /\ RateGet(requests, ip2) = <<1>>
    /\ MapSize(requests) = MAX_IPS_IN_MEMORY + 2


\* the map after a cleanup pass at the current time
Cleaned == cleanupOldEntries(requests, now)

\* the keys the pass processes
Processed ==
    IF MapSize(requests) > MAX_IPS_IN_MEMORY THEN CleanupVisits(requests, 0, now) ELSE 0

\* the pass changes nothing at or below the ceiling
PassWaitsForCeiling == MapSize(requests) <= MAX_IPS_IN_MEMORY => Cleaned = requests

\* the pass removes only keys without a timestamp of the window, at most a
\* batch of them, and keeps every timestamp of the window
PassKeepsWindow ==
    /\ \A k \in KeysIn(requests) :
          /\ CountOf(Cleaned, k) <= CountOf(requests, k)
          /\ CountOf(Cleaned, k) < CountOf(requests, k)
                 => InTrailingWindow(RateGet(requests, k), now) = <<>>
          /\ InTrailingWindow(RateGet(Cleaned, k), now)
                 = InTrailingWindow(RateGet(requests, k), now)
    /\ KeysIn(Cleaned) \subseteq KeysIn(requests)
    /\ MapSize(requests) - MapSize(Cleaned) <= CLEANUP_BATCH_SIZE

\* later calls answer as if the pass had not run
PassIsUnobservable ==
    \A k \in KeysIn(requests), t \in {now, now + 1, now + WINDOW_MS} :
        /\ isRateLimited(Cleaned, k, t, FALSE).ret = isRateLimited(requests, k, t, FALSE).ret
        /\ getRemainingRequests(Cleaned, k, t) = getRemainingRequests(requests, k, t)

\* C26: a cleanup pass changes nothing unless the key count exceeds the
\* ceiling; it removes only keys whose timestamps are all outside the window,
\* processes at most CLEANUP_BATCH_SIZE keys, drops no timestamp of the
\* window, and later isRateLimited and getRemainingRequests calls answer as
\* without the pass.
C26_CleanupPass ==
    /\ PassWaitsForCeiling
    /\ PassKeepsWindow
    /\ Processed <= CLEANUP_BATCH_SIZE
    /\ PassIsUnobservable


\* the username of a session value resolves to a user record of the store
Resolves(session) == session # Null /\ findUser(usersFile, session.username.s) # Null

\* the two variants on one cookie value, at the current time and store
VariantsAgreeOn(cookie) ==
    LET full == decodeSession(cookie, usersFile, now)
        edge == decodeSessionEdge(cookie, now) IN
    /\ full # Null <=> (edge # Null /\ Resolves(edge))
    /\ full # Null /\ edge # Null => full = edge

C28_FieldsTyped ==
    ev.op = "decodeSession" /\ ev.result # Null =>
        /\ IsString(Member(ev.result, "username"))
        /\ IsString(Member(ev.result, "token"))
        /\ IsNumber(Member(ev.result, "createdAt"))
        /\ IsNumber(Member(ev.result, "expiresAt"))


\* a verifyCredentials call started in this step and returned in it
StartsAndEnds == ev' # ev /\ ev'.op = "verifyCredentials" /\ calls' = calls

\* a verifyCredentials call started in this step and awaits bcrypt.compare
StartsAndAwaits == \E r \in 1..MaxSlots : calls[r].pc = "idle" /\ calls'[r].pc = "compare"

\* a full-variant decodeSession call ran in this step
DecodesFull == ev' # ev /\ ev'.op = "decodeSession" /\ ev'.variant = "full"

C29_Step ==
    usersFile \in UnusableFiles =>
        /\ loadUsers(usersFile) = <<>>
        /\ ~StartsAndAwaits
        /\ StartsAndEnds => ev'.result = Null /\ ev'.cause \in {"nouser", "locked"}
        /\ DecodesFull => ev'.result = Null

\* C29: while users.json is absent, empty, unparseable or without a users
\* array, loadUsers gives the empty list, every verifyCredentials call that
\* is made returns null without reaching the password comparison, and every
\* full-variant decodeSession call returns null.
C29_UnusableStoreIsNull == [][C29_Step]_vars

\* with the file unusable, a session created before the failure was refused,
\* and calls with the stored credentials have failed up to the lockout
C29_Witness ==
    /\ usersFile \in UnusableFiles
    /\ ev.op = "verifyCredentials" /\ ev.result = Null /\ ev.cause = "locked"
    /\ ev.password = Str(pwAli)
    /\ issued # {}
    /\ \A i \in issued : decodeSession(i.cookie, usersFile, now) = Null
                            /\ decodeSessionEdge(i.cookie, now) # Null


\* the handler leaves the rate map as it was and does not call the API
NoQuotaUsed == requests' = requests /\ ~ev'.proxied

\* the limiter admitted the request for the key ip and recorded it
AdmittedFor(ip) ==
    /\ Len(InTrailingWindow(RateGet(requests, ip), now)) < MAX_REQUESTS
    /\ RateGet(requests', ip) = Append(InTrailingWindow(RateGet(requests, ip), now), now)

\* what a request with the given headers does to the quota of its address
QuotaOf(headers) ==
    LET ip == getClientIp(headers) IN
    /\ ev'.proxied => ev'.response.status = 200 /\ AdmittedFor(ip)
    /\ ev'.response.status = 200 => ev'.proxied
    /\ ev'.response.status = 429 =>
          /\ Len(InTrailingWindow(RateGet(requests, ip), now)) >= MAX_REQUESTS
          /\ NoQuotaUsed
    /\ Len(InTrailingWindow(RateGet(requests, ip), now)) >= MAX_REQUESTS =>
          ev'.response.status \in {307, 400, 429, 500} /\ NoQuotaUsed
    /\ ev'.response.status \in {307, 400} => NoQuotaUsed
    /\ \A k \in KeysIn(requests) \ {ip} :
          InTrailingWindow(RateGet(requests', k), now)
              = InTrailingWindow(RateGet(requests, k), now)

C30_Step ==
    \A headers \in QuotaHeaders :
        OptimizeRequest(QuotaCookies, QuotaBodies, {headers}, ApiKeys) => QuotaOf(headers)

\* C30: an optimize request reaches the generation API only if the limiter
\* admitted it for the key of its client address and recorded it; a request
\* the limiter refuses is answered 429, calls no API and records nothing; a
\* request answered 400 leaves the rate map as it was.
C30_AdmittedBeforeApi == [][C30_Step]_vars

\* a request from the first address was refused with 429 after ten of its
\* requests were admitted, while the second address still has quota
C30_Witness ==
    /\ ev.op = "optimize" /\ ev.response.status = 429
    /\ Len(RateGet(requests, ip1)) = MAX_REQUESTS
    /\ RateGet(requests, ip1)[MAX_REQUESTS] = now
    /\ Len(InTrailingWindow(RateGet(requests, ip2), now)) = 2

====
